---- MODULE Spec2Model ----
(***************************************************************************)
(* Diagram-model derivation of the OML tooling (oml-diagram.ts).           *)
(*                                                                         *)
(* The parsed document root is the input; computeDiagramModel is applied to *)
(* it and the results of its invocations are kept.  Strings are TLA+       *)
(* strings, template literals are concatenations, JavaScript Maps are      *)
(* functions (get/has) or entry sequences (where iteration order matters). *)
(***************************************************************************)
EXTENDS Integers, Sequences, FiniteSets, TLC

\* The document and the results of computeDiagramModel.
VARIABLES root, previous, latest

\* The language server: its documents and the diagram requests it handles.
VARIABLES docs, inflight

\* The extension host: the open diagram panels, the debounce timers, the
\* runs of updatePanelsForUri and the requests sent to the server.
VARIABLES openPanels, disposed, updateTimeouts, timers, timerCount, changes, saves,
          asked, sinceChange, recomputes, started, issued, requests, display, lastPosted

\* The layout adapter: the document, and the diagram, the scalar property
\* lines and the graph computeLaidOutSModelForUri makes of it.
VARIABLES document, sprotty

\* The webview: the fingers on the screen and the state of the pan and pinch
\* gestures.
VARIABLES touches, isPanning, pinchActive, panX, startX, pinchEnded

diagramVars == <<root, previous, latest>>
serverVars == <<docs, inflight>>
clientVars == <<openPanels, disposed, updateTimeouts, timers, timerCount, changes, saves,
                asked, sinceChange, recomputes, started, issued, requests, display, lastPosted>>
layoutVars == <<document, sprotty>>
touchVars == <<touches, isPanning, pinchActive, panX, startX, pinchEnded>>
vars == <<diagramVars, serverVars, clientVars, layoutVars, touchVars>>

\* The server has not been started.
ServerAtRest == docs = <<>> /\ inflight = <<>>

\* The extension has not been activated.
ClientAtRest ==
    /\ openPanels = <<>> /\ disposed = {}
    /\ updateTimeouts = <<>> /\ timers = <<>> /\ timerCount = 0
    /\ changes = <<>> /\ saves = <<>> /\ asked = 0
    /\ sinceChange = <<>> /\ recomputes = <<>> /\ started = <<>> /\ issued = <<>>
    /\ requests = {} /\ display = <<>> /\ lastPosted = <<>>

\* No document has been handed to the layout adapter.
LayoutAtRest == document = <<>> /\ sprotty = <<>>

\* No webview has been created.
TouchAtRest ==
    /\ touches = <<>> /\ isPanning = FALSE /\ pinchActive = FALSE
    /\ panX = 0 /\ startX = 0 /\ pinchEnded = FALSE

(***************************************************************************)
(* Bounds of the model.                                                    *)
(***************************************************************************)
MaxStmts == 2
MaxCard == 2

(***************************************************************************)
(* JavaScript values.                                                      *)
(***************************************************************************)
\* `undefined` where a string is expected (a missing name, an absent clause).
Undefined == "<undefined>"

\* Truthiness of a string-or-undefined value: `if (x)`, `!x`, `a && b`.
Truthy(x) == x # Undefined /\ x # ""

\* The nullish coalescing operator `a ?? b`.
Coalesce(a, b) == IF a = Undefined THEN b ELSE a

(***************************************************************************)
(* The AST the parser and linker hand over.                                *)
(***************************************************************************)
\* An AST node as seen through a cross-reference: its name and the relation
\* properties present on it (what `'forwardRelation' in prop` inspects).
Node(n, ks) == [name |-> n, keys |-> ks]

\* A cross-reference: `target` holds the node it resolved to, or nothing.
Ref(n) == [target |-> <<Node(n, {})>>]
RelationRef(n) == [target |-> <<Node(n, {"forwardRelation"})>>]
Unresolved == [target |-> <<>>]

\* `x?.ref?.name`
RefName(r) == IF r.target = <<>> THEN Undefined ELSE r.target[1].name

\* A property restriction axiom owned by an entity.
Restriction(ty, p, k, c) == [type |-> ty, property |-> p, kind |-> k, cardinality |-> c]
CardinalityAxiom(p, k, c) == Restriction("PropertyCardinalityRestrictionAxiom", p, k, c)

\* A top-level statement of a vocabulary.
Stmt(ty, n, specs, srcs, tgts, fwd, rev, fun, restrs) ==
    [type |-> ty, name |-> n, ownedSpecializations |-> specs,
     sources |-> srcs, targets |-> tgts,
     forwardRelation |-> fwd, reverseRelation |-> rev, functional |-> fun,
     ownedPropertyRestrictions |-> restrs]

isConcept(s) == s.type = "Concept"
isAspect(s) == s.type = "Aspect"
isRelationEntity(s) == s.type = "RelationEntity"
isUnreifiedRelation(s) == s.type = "UnreifiedRelation"
isVocabulary(r) == r.type = "Vocabulary"
isPropertyCardinalityRestrictionAxiom(r) == r.type = "PropertyCardinalityRestrictionAxiom"

(***************************************************************************)
(* Cardinality Resolver (computeCardinalityMap).                           *)
(***************************************************************************)
\* Template literal `${value}` of a number.
NumberToString(n) == ToString(n)

formatCardinality(kind, value) ==
    IF kind = "exactly" THEN "[" \o NumberToString(value) \o "]"
    ELSE IF kind = "min" THEN "[" \o NumberToString(value) \o "..*]"
    ELSE "[0.." \o NumberToString(value) \o "]"

\* The key `${entityName}::${relName}` of the cardinality map.
CardKey(entityName, relName) == entityName \o "::" \o relName

\* map.has(key) / map.get(key) / map.set(key, value) of a Map<string, string>.
MapHas(map, key) == key \in DOMAIN map
MapGet(map, key) == IF key \in DOMAIN map THEN map[key] ELSE Undefined
MapSet(map, key, value) == [k \in DOMAIN map \cup {key} |-> IF k = key THEN value ELSE map[k]]
EmptyMap == [k \in {} |-> Undefined]

\* Whether the first explicit restriction recorded for a key stands.
KeepFirstCardinality(map, key) == MapHas(map, key)

\* The closure `push` of computeCardinalityMap: one explicit restriction.
PushCardinality(map, entity, prop, kind, card) ==
    IF ~Truthy(entity.name) \/ prop.target = <<>> THEN map
    ELSE LET rel == prop.target[1] IN
         IF "forwardRelation" \in rel.keys \/ "reverseRelation" \in rel.keys
         THEN IF ~Truthy(rel.name) THEN map
              ELSE LET key == CardKey(entity.name, rel.name) IN
                   IF KeepFirstCardinality(map, key) THEN map
                   ELSE MapSet(map, key, formatCardinality(kind, card))
         ELSE map

\* The loop over one statement's ownedPropertyRestrictions, from index i on.
RECURSIVE PushRestrictions(_, _, _)
PushRestrictions(map, stmt, i) ==
    IF i > Len(stmt.ownedPropertyRestrictions) THEN map
    ELSE LET r == stmt.ownedPropertyRestrictions[i] IN
         IF ~isPropertyCardinalityRestrictionAxiom(r)
         THEN PushRestrictions(map, stmt, i + 1)
         ELSE IF r.kind \in {"exactly", "min", "max"}
              THEN PushRestrictions(
                       PushCardinality(map, stmt, r.property, r.kind, r.cardinality),
                       stmt, i + 1)
              ELSE PushRestrictions(map, stmt, i + 1)

\* Whether the functional default may be written under a key.
FunctionalDefaultApplies(map, key, rel) == ~MapHas(map, key) /\ rel.functional

\* The loop over the sources of a relation statement, from index i on.
RECURSIVE FunctionalFallback(_, _, _)
FunctionalFallback(map, rel, i) ==
    IF i > Len(rel.sources) THEN map
    ELSE LET entName == RefName(rel.sources[i]) IN
         IF ~Truthy(entName) THEN FunctionalFallback(map, rel, i + 1)
         ELSE LET key == CardKey(entName, rel.name) IN
              IF FunctionalDefaultApplies(map, key, rel)
              THEN FunctionalFallback(MapSet(map, key, "[0..1]"), rel, i + 1)
              ELSE FunctionalFallback(map, rel, i + 1)

\* One iteration of the statement loop of computeCardinalityMap.
CardinalityStep(map, stmt) ==
    LET m1 == PushRestrictions(map, stmt, 1) IN
    IF isRelationEntity(stmt) \/ isUnreifiedRelation(stmt)
    THEN IF ~Truthy(stmt.name) THEN m1 ELSE FunctionalFallback(m1, stmt, 1)
    ELSE m1

RECURSIVE CardinalityLoop(_, _, _)
CardinalityLoop(map, stmts, i) ==
    IF i > Len(stmts) THEN map
    ELSE CardinalityLoop(CardinalityStep(map, stmts[i]), stmts, i + 1)

computeCardinalityMap(vocab) == CardinalityLoop(EmptyMap, vocab.ownedStatements, 1)

(***************************************************************************)
(* Subsumption Resolver (computeRelationSubsets).                          *)
(***************************************************************************)
\* Mutant of Includes: only the last element of the list is compared.
IncludesLastOnly(arr, x) == Len(arr) > 0 /\ arr[Len(arr)] = x

\* arr.includes(x)
Includes(arr, x) == \E i \in DOMAIN arr : arr[i] = x

\* The closure `record`: the specialization axioms of one relation, from i on.
RECURSIVE RecordSubsets(_, _, _, _)
RecordSubsets(map, subName, specs, i) ==
    IF ~Truthy(subName) \/ i > Len(specs) THEN map
    ELSE LET supName == RefName(specs[i]) IN
         IF ~Truthy(supName) THEN RecordSubsets(map, subName, specs, i + 1)
         ELSE LET arr == IF MapHas(map, subName) THEN map[subName] ELSE <<>>
                  arr2 == IF Includes(arr, supName) THEN arr ELSE Append(arr, supName)
              IN RecordSubsets(MapSet(map, subName, arr2), subName, specs, i + 1)

RECURSIVE SubsetsLoop(_, _, _)
SubsetsLoop(map, stmts, i) ==
    IF i > Len(stmts) THEN map
    ELSE IF isRelationEntity(stmts[i]) \/ isUnreifiedRelation(stmts[i])
         THEN SubsetsLoop(RecordSubsets(map, stmts[i].name, stmts[i].ownedSpecializations, 1),
                          stmts, i + 1)
         ELSE SubsetsLoop(map, stmts, i + 1)

computeRelationSubsets(vocab) == SubsetsLoop(EmptyMap, vocab.ownedStatements, 1)

\* subsetOf.get(relName) ?? []
SupersOf(subsetOf, relName) == IF MapHas(subsetOf, relName) THEN subsetOf[relName] ELSE <<>>

(***************************************************************************)
(* Diagram Model Builder (computeDiagramModel).                            *)
(***************************************************************************)
\* termByName: a Map<string, any> as its entries in insertion order.
\* Setting a name already present replaces the value and keeps the position.
TermHas(termByName, n) == \E i \in DOMAIN termByName : termByName[i].name = n
TermSet(termByName, n, stmt) ==
    IF TermHas(termByName, n)
    THEN [i \in DOMAIN termByName |->
            IF termByName[i].name = n THEN [name |-> n, term |-> stmt] ELSE termByName[i]]
    ELSE Append(termByName, [name |-> n, term |-> stmt])

\* termByName.values()
TermValues(termByName) == [i \in DOMAIN termByName |-> termByName[i].term]

DiagramNode(n, k) == [id |-> n, label |-> n, kind |-> k]

\* The node kind the classify pass gives a statement, "" for none.
NodeKind(stmt) ==
    IF isConcept(stmt) THEN "concept"
    ELSE IF isAspect(stmt) THEN "aspect"
    ELSE IF isRelationEntity(stmt) THEN "relation-entity"
    ELSE ""

\* Mutant of IsRegistered: the name of the statement is not looked at.
IsRegisteredWhateverTheName(stmt) ==
    isConcept(stmt) \/ isAspect(stmt) \/ isRelationEntity(stmt) \/ isUnreifiedRelation(stmt)

\* Whether the classify pass registers a statement in termByName.
IsRegistered(stmt) ==
    /\ isConcept(stmt) \/ isAspect(stmt) \/ isRelationEntity(stmt) \/ isUnreifiedRelation(stmt)
    /\ Truthy(stmt.name)

\* The nodes the classify pass pushes for one statement.
NodesOfStatement(stmt) ==
    IF IsRegistered(stmt) /\ NodeKind(stmt) # ""
    THEN <<DiagramNode(stmt.name, NodeKind(stmt))>>
    ELSE <<>>

\* Classify pass: st = [termByName, nodes], statements from index i on.
RECURSIVE Classify(_, _, _)
Classify(st, stmts, i) ==
    IF i > Len(stmts) THEN st
    ELSE IF IsRegistered(stmts[i])
         THEN Classify([termByName |-> TermSet(st.termByName, stmts[i].name, stmts[i]),
                        nodes |-> st.nodes \o NodesOfStatement(stmts[i])],
                       stmts, i + 1)
         ELSE Classify(st, stmts, i + 1)

SpecializationEdge(child, parent) ==
    [id |-> child \o "->" \o parent, source |-> child, target |-> parent,
     kind |-> "specialization"]

\* Whether a specialization axiom of term t with super name superName is drawn.
DrawsSpecialization(termByName, t, superName) ==
    Truthy(superName) /\ Truthy(t.name) /\ TermHas(termByName, superName)

\* The specialization edges of one term, axioms from index i on.
RECURSIVE SpecializationEdgesOf(_, _, _)
SpecializationEdgesOf(termByName, t, i) ==
    IF i > Len(t.ownedSpecializations) THEN <<>>
    ELSE LET superName == RefName(t.ownedSpecializations[i]) IN
         (IF DrawsSpecialization(termByName, t, superName)
          THEN <<SpecializationEdge(t.name, superName)>>
          ELSE <<>>)
         \o SpecializationEdgesOf(termByName, t, i + 1)

\* Mutant of SubsetLines: only the super-relation at index i is shown.
SubsetLinesOneOnly(supers, i) ==
    IF i > Len(supers) THEN "" ELSE "{subsets " \o supers[i] \o "}"

\* supers.map(sup => `{subsets ${sup}}`).join('\n')
RECURSIVE SubsetLines(_, _)
SubsetLines(supers, i) ==
    IF i > Len(supers) THEN ""
    ELSE "{subsets " \o supers[i] \o "}"
         \o (IF i < Len(supers) THEN "\n" ELSE "")
         \o SubsetLines(supers, i + 1)

\* `${forward} ${forwardCard}` when a cardinality was found, else forward.
ForwardLabel(forward, forwardCard) ==
    IF Truthy(forwardCard) THEN forward \o " " \o forwardCard ELSE forward

\* The label block of a RelationEntity edge anchored at source sName.
RelationEntityLabel(t, sName, cardinalities, subsetOf) ==
    LET forward == Coalesce(t.forwardRelation, t.name)
        reverse == Coalesce(t.reverseRelation, "")
        forwardKey == CardKey(Coalesce(sName, ""), t.name)
        forwardCard == IF Truthy(forward) THEN MapGet(cardinalities, forwardKey) ELSE Undefined
        forwardLabel == ForwardLabel(forward, forwardCard)
        reverseLabel == reverse
        combinedLabel == IF Truthy(reverseLabel) /\ Truthy(forwardLabel)
                         THEN reverseLabel \o "\n" \o forwardLabel
                         ELSE Coalesce(forwardLabel, Coalesce(reverseLabel, ""))
        supers == SupersOf(subsetOf, t.name)
    IN IF Len(supers) > 0 /\ Truthy(forwardLabel)
       THEN IF Truthy(reverseLabel) /\ Truthy(forwardLabel)
            THEN reverseLabel \o "\n" \o forwardLabel \o "\n" \o SubsetLines(supers, 1)
            ELSE forwardLabel \o "\n" \o SubsetLines(supers, 1)
       ELSE combinedLabel

\* Mutant of UnreifiedRelationLabel: the reverse name is put after the forward
\* label, and the subset lines are left out.
UnreifiedRelationLabelReverseLast(t, sName, cardinalities, subsetOf) ==
    LET forward == Coalesce(t.forwardRelation, t.name)
        reverse == Coalesce(t.reverseRelation, "")
        forwardCard == MapGet(cardinalities, CardKey(Coalesce(sName, ""), t.name))
        forwardLabel == IF Truthy(forwardCard) THEN forward \o " " \o forwardCard ELSE forward
    IN IF Truthy(reverse) THEN forwardLabel \o "\n" \o reverse ELSE forwardLabel

\* The label of an UnreifiedRelation edge anchored at source sName.
UnreifiedRelationLabel(t, sName, cardinalities, subsetOf) ==
    LET forwardName == Coalesce(t.forwardRelation, t.name)
        forward == forwardName
        reverse == Coalesce(t.reverseRelation, "")
        forwardKey == CardKey(Coalesce(sName, ""), t.name)
        forwardCard == IF Truthy(forward) THEN MapGet(cardinalities, forwardKey) ELSE Undefined
        forwardLabel == ForwardLabel(forward, forwardCard)
        reverseLabel == reverse
        combinedLabel == IF Truthy(reverseLabel) /\ Truthy(forwardLabel)
                         THEN reverseLabel \o "\n" \o forwardLabel
                         ELSE Coalesce(forwardLabel, Coalesce(reverseLabel, ""))
        supers == SupersOf(subsetOf, t.name)
    IN IF Len(supers) > 0 /\ Truthy(forwardLabel)
       THEN IF Truthy(reverseLabel) /\ Truthy(forwardLabel)
            THEN reverseLabel \o "\n" \o forwardLabel \o "\n" \o SubsetLines(supers, 1)
            ELSE forwardLabel \o "\n" \o SubsetLines(supers, 1)
       ELSE combinedLabel

\* The two visual segments of a RelationEntity for one (source, target) pair.
RelationEntityEdges(relName, sName, tName, combinedLabel) ==
    << [id |-> sName \o "->" \o relName, source |-> sName, target |-> relName,
        kind |-> "relation", hasMarker |-> FALSE, label |-> combinedLabel],
       [id |-> relName \o "->" \o tName, source |-> relName, target |-> tName,
        kind |-> "relation", hasMarker |-> TRUE] >>

\* The direct edge of an UnreifiedRelation for one (source, target) pair.
UnreifiedRelationEdges(relName, sName, tName, combinedLabel) ==
    << [id |-> sName \o "->" \o tName, source |-> sName, target |-> tName,
        kind |-> "relation", hasMarker |-> TRUE, label |-> combinedLabel] >>

\* The edges of relation t for one (source, target) pair.
PairEdges(t, sName, tName, cardinalities, subsetOf) ==
    IF isRelationEntity(t)
    THEN RelationEntityEdges(t.name, sName, tName,
                             RelationEntityLabel(t, sName, cardinalities, subsetOf))
    ELSE UnreifiedRelationEdges(t.name, sName, tName,
                                UnreifiedRelationLabel(t, sName, cardinalities, subsetOf))

\* The inner loop over targets, from index j on, for source index i.
RECURSIVE TargetLoop(_, _, _, _, _)
TargetLoop(t, i, j, cardinalities, subsetOf) ==
    IF j > Len(t.targets) THEN <<>>
    ELSE LET tName == RefName(t.targets[j]) IN
         (IF ~Truthy(tName) THEN <<>>
          ELSE PairEdges(t, RefName(t.sources[i]), tName, cardinalities, subsetOf))
         \o TargetLoop(t, i, j + 1, cardinalities, subsetOf)

\* The outer loop over sources, from index i on.
RECURSIVE SourceLoop(_, _, _, _)
SourceLoop(t, i, cardinalities, subsetOf) ==
    IF i > Len(t.sources) THEN <<>>
    ELSE (IF ~Truthy(RefName(t.sources[i])) THEN <<>>
          ELSE TargetLoop(t, i, 1, cardinalities, subsetOf))
         \o SourceLoop(t, i + 1, cardinalities, subsetOf)

\* The relation edges one value t of termByName contributes.
RelationEdgesOf(t, cardinalities, subsetOf) ==
    IF (isRelationEntity(t) \/ isUnreifiedRelation(t)) /\ Truthy(t.name)
    THEN SourceLoop(t, 1, cardinalities, subsetOf)
    ELSE <<>>

\* Specialization-edge pass over termByName.values(), from index i on.
RECURSIVE SpecializationPass(_, _)
SpecializationPass(termByName, i) ==
    IF i > Len(termByName) THEN <<>>
    ELSE SpecializationEdgesOf(termByName, termByName[i].term, 1)
         \o SpecializationPass(termByName, i + 1)

\* Relation-edge pass over termByName.values(), from index i on.
RECURSIVE RelationPass(_, _, _, _)
RelationPass(termByName, i, cardinalities, subsetOf) ==
    IF i > Len(termByName) THEN <<>>
    ELSE RelationEdgesOf(termByName[i].term, cardinalities, subsetOf)
         \o RelationPass(termByName, i + 1, cardinalities, subsetOf)

\* Mutant of NewEdges: the edge list lives outside the function and keeps what
\* the last invocation pushed.
EdgesLeftByLastInvocation == IF latest = <<>> THEN <<>> ELSE latest[1].edges

\* The lists a new invocation starts from: `const nodes = []`, `const edges = []`.
NewNodes == <<>>
NewEdges == <<>>

\* The classify pass of a vocabulary.
Classified(vocab) ==
    Classify([termByName |-> <<>>, nodes |-> NewNodes], vocab.ownedStatements, 1)

computeDiagramModel(r) ==
    IF isVocabulary(r)
    THEN LET cardinalities == computeCardinalityMap(r)
             subsetOf == computeRelationSubsets(r)
             st == Classified(r)
         IN [nodes |-> st.nodes,
             edges |-> NewEdges
                       \o SpecializationPass(st.termByName, 1)
                       \o RelationPass(st.termByName, 1, cardinalities, subsetOf)]
    ELSE [nodes |-> NewNodes, edges |-> NewEdges]

(***************************************************************************)
(* The inputs: the statements a parsed vocabulary is built from.           *)
(***************************************************************************)
NoRefs == <<>>
NoRestrictions == <<>>

Entity(ty, n, specs, restrs) ==
    Stmt(ty, n, specs, NoRefs, NoRefs, Undefined, Undefined, FALSE, restrs)

Relation(ty, n, srcs, tgts, fwd, rev, fun, specs) ==
    Stmt(ty, n, specs, srcs, tgts, fwd, rev, fun, NoRestrictions)

RestrictionKinds == {"exactly", "min", "max"}
RelationTypes == {"RelationEntity", "UnreifiedRelation"}

\* Concepts, aspects and scalar properties without axioms; some without a name.
BareStatements ==
    {Entity(ty, n, NoRefs, NoRestrictions) : ty \in {"Concept", "Aspect"}, n \in {"A", "B"}}
    \cup {Entity("Concept", Undefined, NoRefs, NoRestrictions),
          Entity("ScalarProperty", "R", NoRefs, NoRestrictions),
          Entity("ScalarProperty", Undefined, NoRefs, NoRestrictions)}

\* Entities that own specialization axioms.
SpecializingEntities ==
    {Entity("Concept", "A", <<Ref("B")>>, NoRestrictions),
     Entity("Concept", "A", <<Ref("B"), Ref("B")>>, NoRestrictions),
     Entity("Concept", "A", <<Unresolved, Ref("A")>>, NoRestrictions),
     Entity("Concept", Undefined, <<Ref("B")>>, NoRestrictions),
     Entity("Aspect", "B", <<Ref("A")>>, NoRestrictions)}

\* Entities that own property restriction axioms.
RestrictedEntities ==
    {Entity("Concept", "A", NoRefs, <<CardinalityAxiom(RelationRef("R"), k, c)>>) :
        k \in RestrictionKinds, c \in 0..MaxCard}
    \cup {Entity("Concept", "A", NoRefs,
                 <<CardinalityAxiom(RelationRef("R"), "min", MaxCard),
                   CardinalityAxiom(RelationRef("R"), "exactly", 1)>>),
          Entity("Concept", "A", NoRefs,
                 <<CardinalityAxiom(RelationRef("R"), Undefined, 1)>>),
          Entity("Concept", "A", NoRefs,
                 <<CardinalityAxiom([target |-> <<Node(Undefined, {"forwardRelation"})>>],
                                    "exactly", 1)>>),
          Entity("Concept", "A", NoRefs,
                 <<Restriction("PropertyRangeRestrictionAxiom", RelationRef("R"), "all", 0),
                   CardinalityAxiom(Ref("R"), "exactly", 1),
                   CardinalityAxiom(Unresolved, "exactly", 1)>>),
          Entity("Concept", Undefined, NoRefs,
                 <<CardinalityAxiom(RelationRef("R"), "exactly", 1)>>),
          Entity("RelationEntity", "R", NoRefs,
                 <<CardinalityAxiom(RelationRef("R"), "exactly", 1)>>)}

\* Relation entities and unreified relations.
RelationStatements ==
    UNION {
      {Relation(ty, "R", <<Ref("A")>>, <<Ref("B")>>, Undefined, Undefined, FALSE, NoRefs),
       Relation(ty, "R", <<Ref("A")>>, <<Ref("A")>>, "f", Undefined, FALSE, NoRefs),
       Relation(ty, "R", <<Ref("A")>>, <<Ref("B")>>, "f", "r", TRUE, NoRefs),
       Relation(ty, "R", <<Ref("A")>>, <<Ref("B")>>, Undefined, Undefined, TRUE, NoRefs),
       Relation(ty, "R", <<Ref("A")>>, <<Ref("B")>>, Undefined, "r", FALSE, NoRefs),
       Relation(ty, "R", <<Ref("A"), Ref("B")>>, <<Ref("B")>>, Undefined, Undefined, TRUE, NoRefs),
       Relation(ty, "R", <<Ref("A")>>, <<Ref("A"), Ref("B")>>, Undefined, Undefined, FALSE, NoRefs),
       Relation(ty, "R", <<Unresolved, Ref("A")>>, <<Unresolved, Ref("B")>>,
                Undefined, Undefined, FALSE, NoRefs),
       Relation(ty, "R", <<Ref("A")>>, <<Ref("B")>>, Undefined, Undefined, FALSE, <<Ref("Q")>>),
       Relation(ty, "R", <<Ref("A")>>, <<Ref("B")>>, Undefined, Undefined, FALSE,
                <<Unresolved, Ref("Q"), Ref("A"), Ref("Q")>>),
       Relation(ty, "R", <<Ref("A")>>, <<Ref("B")>>, "f", "r", TRUE, <<Ref("Q")>>),
       Relation(ty, "Q", <<Ref("A")>>, <<Ref("B")>>, Undefined, Undefined, FALSE, NoRefs),
       Relation(ty, Undefined, <<Ref("A")>>, <<Ref("B")>>, Undefined, Undefined, TRUE,
                <<Ref("Q")>>),
       Relation(ty, "R", NoRefs, NoRefs, Undefined, Undefined, TRUE, NoRefs)}
      : ty \in RelationTypes }

Statements ==
    BareStatements \cup SpecializingEntities \cup RestrictedEntities \cup RelationStatements

\* The root types a document can parse to; Undefined for a parse without a
\* root value.
RootTypes == {"Vocabulary", "Description", Undefined}

EmptyRoot(ty) == [type |-> ty, ownedStatements |-> <<>>]

(***************************************************************************)
(* The state machine: the document is parsed, computeDiagramModel is       *)
(* invoked on it, and the results of the last two invocations are kept.    *)
(***************************************************************************)
\* `previous` and `latest` hold at most one diagram model each.
None == <<>>
Some(m) == <<m>>

\* A document has been opened; nothing is parsed or computed yet.
Init ==
    /\ root \in {EmptyRoot(ty) : ty \in RootTypes}
    /\ previous = None
    /\ latest = None
    /\ ServerAtRest
    /\ ClientAtRest
    /\ LayoutAtRest
    /\ TouchAtRest

\* The parser appends a statement to the vocabulary, before the diagram of the
\* document is requested.
ParseStatement(s) ==
    /\ isVocabulary(root)
    /\ latest = None
    /\ Len(root.ownedStatements) < MaxStmts
    /\ root' = [root EXCEPT !.ownedStatements = Append(@, s)]
    /\ UNCHANGED <<previous, latest, serverVars, clientVars, layoutVars, touchVars>>

\* One invocation of computeDiagramModel on the current document.
Invoke ==
    /\ previous' = latest
    /\ latest' = Some(computeDiagramModel(root))
    /\ UNCHANGED <<root, serverVars, clientVars, layoutVars, touchVars>>

Next ==
    \/ \E s \in Statements : ParseStatement(s)
    \/ Invoke

Spec == Init /\ [][Next]_vars

(***************************************************************************)
(* Vocabulary used to state the properties.                                *)
(***************************************************************************)
\* The statements of the current document and the result of the last invocation.
Stmts == root.ownedStatements
Computed == latest # None
Nodes == latest[1].nodes
Edges == latest[1].edges

\* The subsequence of seq whose elements satisfy Test, in order.
RECURSIVE SelectFrom(_, _, _)
SelectFrom(seq, Test(_), i) ==
    IF i > Len(seq) THEN <<>>
    ELSE (IF Test(seq[i]) THEN <<seq[i]>> ELSE <<>>) \o SelectFrom(seq, Test, i + 1)

Count(seq, Test(_)) == Cardinality({i \in DOMAIN seq : Test(seq[i])})

\* The resolved names of a list of references, in order.
ResolvedNames(refs) ==
    LET Resolved(r) == Truthy(RefName(r))
        rs == SelectFrom(refs, Resolved, 1)
    IN [i \in DOMAIN rs |-> RefName(rs[i])]

IsEntityLike(s) == s.type \in {"Concept", "Aspect", "RelationEntity"}
IsRelation(s) == s.type \in RelationTypes
IsNamed(s) == Truthy(s.name)

\* Statement i is the one termByName ends up holding under its name.
Drawn(i) ==
    /\ IsRegistered(Stmts[i])
    /\ \A j \in DOMAIN Stmts : (j > i /\ IsRegistered(Stmts[j])) => Stmts[j].name # Stmts[i].name

\* No two named statements the diagram draws share a name.
UniqueNames ==
    \A i, j \in DOMAIN Stmts :
        (i # j /\ IsRegistered(Stmts[i]) /\ IsRegistered(Stmts[j]))
            => Stmts[i].name # Stmts[j].name

C3_NodeIdsUnique ==
    Computed => \A i, j \in DOMAIN Nodes : i # j => Nodes[i].id # Nodes[j].id

\* The same, for documents in which no two drawn statements share a name.
C3_NodeIdsUniqueIfNamesAre ==
    (Computed /\ UniqueNames) =>
        \A i, j \in DOMAIN Nodes : i # j => Nodes[i].id # Nodes[j].id

(***************************************************************************)
(* C4: every named Concept, Aspect or RelationEntity statement has exactly *)
(* one node, with id and label its name and the kind of its type; nodes    *)
(* come in statement order; no other statement has a node.                 *)
(***************************************************************************)
ClaimedKind(s) ==
    CASE s.type = "Concept" -> "concept"
      [] s.type = "Aspect" -> "aspect"
      [] s.type = "RelationEntity" -> "relation-entity"

HasNode(s) == IsEntityLike(s) /\ IsNamed(s)

\* One node per statement that has one, in statement order.
ClaimedNodes ==
    LET drawn == SelectFrom(Stmts, HasNode, 1)
    IN [i \in DOMAIN drawn |->
          [id |-> drawn[i].name, label |-> drawn[i].name, kind |-> ClaimedKind(drawn[i])]]

NodeOrderAndKinds == Nodes = ClaimedNodes

ExactlyOneNodeEach ==
    \A i \in DOMAIN Stmts :
        HasNode(Stmts[i]) =>
            LET IsItsNode(n) == /\ n.id = Stmts[i].name
                                /\ n.label = Stmts[i].name
                                /\ n.kind = ClaimedKind(Stmts[i])
            IN Count(Nodes, IsItsNode) = 1

\* C4: every named Concept, Aspect and RelationEntity statement has exactly
\* one node, with id = label = its name and the kind of its type, in order.
C4_NodeKindCompleteness ==
    (Computed /\ isVocabulary(root)) => (NodeOrderAndKinds /\ ExactlyOneNodeEach)

\* The part of C4 that holds of every document: one node per statement.
C4_OneNodePerStatement ==
    (Computed /\ isVocabulary(root)) => NodeOrderAndKinds

C4_HoldsIfNamesAreUnique ==
    (Computed /\ isVocabulary(root) /\ UniqueNames) => (NodeOrderAndKinds /\ ExactlyOneNodeEach)

(***************************************************************************)
(* Labels as lines.                                                        *)
(***************************************************************************)
\* The position of the first newline of str at or after i, Len(str) + 1 if none.
RECURSIVE NextNewline(_, _)
NextNewline(str, i) ==
    IF i > Len(str) THEN i
    ELSE IF SubSeq(str, i, i) = "\n" THEN i ELSE NextNewline(str, i + 1)

\* The lines of str starting at position i (str.split('\n')).
RECURSIVE LinesFrom(_, _)
LinesFrom(str, i) ==
    LET n == NextNewline(str, i) IN
    IF n > Len(str) THEN <<SubSeq(str, i, Len(str))>>
    ELSE <<SubSeq(str, i, n - 1)>> \o LinesFrom(str, n + 1)

Lines(str) == LinesFrom(str, 1)

\* lines.join('\n')
RECURSIVE JoinLines(_)
JoinLines(lines) ==
    IF lines = <<>> THEN ""
    ELSE IF Len(lines) = 1 THEN lines[1]
    ELSE lines[1] \o "\n" \o JoinLines(Tail(lines))

StartsWith(str, prefix) ==
    Len(str) >= Len(prefix) /\ SubSeq(str, 1, Len(prefix)) = prefix

\* What the claims call the forward and the reverse name of a relation.
ClaimedForwardName(r) ==
    IF r.forwardRelation # Undefined THEN r.forwardRelation ELSE r.name
HasReverse(r) == r.reverseRelation # Undefined

\* The forward line of the label of an edge of relation r.
ForwardLineOf(label, r) ==
    LET ls == Lines(label)
        k == IF HasReverse(r) THEN 2 ELSE 1
    IN IF k <= Len(ls) THEN ls[k] ELSE ""

\* The labelled edges of the diagram anchored at source a that show relation r.
IsAnchoredEdge(e, a, r) ==
    /\ e.kind = "relation"
    /\ "label" \in DOMAIN e
    /\ e.source = a
    /\ IF isRelationEntity(r)
       THEN e.target = r.name /\ ~e.hasMarker
       ELSE /\ e.hasMarker
            /\ Includes(ResolvedNames(r.targets), e.target)
            /\ StartsWith(ForwardLineOf(e.label, r), ClaimedForwardName(r))

(***************************************************************************)
(* C2: an explicit cardinality restriction that entity A owns on a         *)
(* functional relation R with source A decides the entry "A::R" of the     *)
(* cardinality map and the forward label of the A-anchored edge of R, in   *)
(* every declaration order of A and R.                                     *)
(***************************************************************************)
\* r is an explicit cardinality restriction on a relation named relName.
RestrictsRelation(x, relName) ==
    /\ isPropertyCardinalityRestrictionAxiom(x)
    /\ x.kind \in RestrictionKinds
    /\ x.property.target # <<>>
    /\ x.property.target[1].keys # {}
    /\ x.property.target[1].name = relName

\* The texts of the explicit restrictions statements named a own on relName.
ExplicitTexts(a, relName) ==
    UNION {{formatCardinality(Stmts[i].ownedPropertyRestrictions[k].kind,
                              Stmts[i].ownedPropertyRestrictions[k].cardinality) :
              k \in {k \in DOMAIN Stmts[i].ownedPropertyRestrictions :
                        RestrictsRelation(Stmts[i].ownedPropertyRestrictions[k], relName)}} :
           i \in {i \in DOMAIN Stmts : Stmts[i].name = a}}

\* The forward labels the claims allow for texts: "<forward> <text>".
ForwardLabelsWith(r, texts) == {ClaimedForwardName(r) \o " " \o c : c \in texts}

\* C2: a forward label of a relation restricted by its source entity shows
\* the explicit cardinality text, never the functional default in its place.
C2_ExplicitCardinalityPrecedes ==
    Computed =>
        \A i, j \in DOMAIN Stmts :
            LET a == Stmts[i]
                r == Stmts[j]
                explicit == ExplicitTexts(a.name, r.name)
            IN (/\ IsEntityLike(a) /\ IsNamed(a)
                /\ IsRelation(r) /\ IsNamed(r) /\ r.functional
                /\ Includes(ResolvedNames(r.sources), a.name)
                /\ explicit # {})
               => /\ MapGet(computeCardinalityMap(root), CardKey(a.name, r.name)) \in explicit
                  /\ \A k \in DOMAIN Edges :
                        IsAnchoredEdge(Edges[k], a.name, r)
                            => ForwardLineOf(Edges[k].label, r) \in ForwardLabelsWith(r, explicit)

\* The same, when the entity's statement comes before the relation's.
C2_HoldsIfEntityComesFirst ==
    Computed =>
        \A i, j \in DOMAIN Stmts :
            LET a == Stmts[i]
                r == Stmts[j]
                explicit == ExplicitTexts(a.name, r.name)
            IN (/\ IsEntityLike(a) /\ IsNamed(a)
                /\ IsRelation(r) /\ IsNamed(r) /\ r.functional
                /\ Includes(ResolvedNames(r.sources), a.name)
                /\ explicit # {}
                /\ \A m \in DOMAIN Stmts :
                      (IsRelation(Stmts[m]) /\ Stmts[m].name = r.name) => i <= m)
               => /\ MapGet(computeCardinalityMap(root), CardKey(a.name, r.name)) \in explicit
                  /\ \A k \in DOMAIN Edges :
                        IsAnchoredEdge(Edges[k], a.name, r)
                            => ForwardLineOf(Edges[k].label, r) \in ForwardLabelsWith(r, explicit)

(***************************************************************************)
(* C5: a term C that owns a specialization axiom with super-term P has the *)
(* edge "C->P" (source C, target P, kind specialization) exactly if P is   *)
(* the name of a registered term; there is no other specialization edge.   *)
(***************************************************************************)
\* The names of the vocabulary's named terms (the names termByName holds).
RegisteredNames == {Stmts[i].name : i \in {i \in DOMAIN Stmts : IsRegistered(Stmts[i])}}

\* The edge the claims give the specialization of child to parent.
ClaimedSpecializationEdge(child, parent) ==
    [id |-> child \o "->" \o parent, source |-> child, target |-> parent,
     kind |-> "specialization"]

\* Statement c owns a specialization axiom whose super-term resolves to p.
Specializes(c, p) ==
    \E k \in DOMAIN c.ownedSpecializations : RefName(c.ownedSpecializations[k]) = p

SpecializationEdgeIff ==
    \A i \in DOMAIN Stmts : \A k \in DOMAIN Stmts[i].ownedSpecializations :
        LET c == Stmts[i]
            p == RefName(c.ownedSpecializations[k])
        IN (IsRegistered(c) /\ Truthy(p)) =>
              (Includes(Edges, ClaimedSpecializationEdge(c.name, p)) <=> p \in RegisteredNames)

NoOtherSpecializationEdge ==
    \A k \in DOMAIN Edges :
        Edges[k].kind = "specialization" =>
            \E i \in DOMAIN Stmts :
                /\ IsRegistered(Stmts[i])
                /\ Stmts[i].name = Edges[k].source
                /\ Specializes(Stmts[i], Edges[k].target)
                /\ Edges[k].target \in RegisteredNames
                /\ Edges[k] = ClaimedSpecializationEdge(Edges[k].source, Edges[k].target)

\* C5: a specialization edge child->parent exists exactly when the child
\* specializes a parent that is a registered term, and no other one exists.
C5_SpecializationEdges ==
    Computed => (SpecializationEdgeIff /\ NoOtherSpecializationEdge)

C5_HoldsIfNamesAreUnique ==
    (Computed /\ UniqueNames) => (SpecializationEdgeIff /\ NoOtherSpecializationEdge)

(***************************************************************************)
(* C8: the combined label is the newline-join of the reverse name (if      *)
(* present), the forward label ("<forwardName> <card>" if the cardinality  *)
(* map has "<source>::<relation>", else "<forwardName>") and one           *)
(* "{subsets <super>}" line per super-relation, in that order, the same    *)
(* for relation entities and unreified relations, without empty lines.     *)
(***************************************************************************)
ClaimedForwardLabel(r, sName, cardinalities) ==
    IF CardKey(sName, r.name) \in DOMAIN cardinalities
    THEN ClaimedForwardName(r) \o " " \o cardinalities[CardKey(sName, r.name)]
    ELSE ClaimedForwardName(r)

ClaimedSubsetLines(supers) == [i \in DOMAIN supers |-> "{subsets " \o supers[i] \o "}"]

ClaimedLabelLines(r, sName, cardinalities, subsetOf) ==
    (IF HasReverse(r) THEN <<r.reverseRelation>> ELSE <<>>)
    \o <<ClaimedForwardLabel(r, sName, cardinalities)>>
    \o ClaimedSubsetLines(IF r.name \in DOMAIN subsetOf THEN subsetOf[r.name] ELSE <<>>)

\* The combined label of relation r at source sName, given the two maps.
ClaimedLabelWith(r, sName, cardinalities, subsetOf) ==
    JoinLines(ClaimedLabelLines(r, sName, cardinalities, subsetOf))

\* The combined label of relation r at source sName in the current document.
ClaimedCombinedLabel(r, sName) ==
    ClaimedLabelWith(r, sName, computeCardinalityMap(root), computeRelationSubsets(root))

IsLabelled(e) == e.kind = "relation" /\ "label" \in DOMAIN e

\* A labelled edge of the diagram shows relation statement r.
ShowsRelation(e, r, cardinalities, subsetOf) ==
    /\ IsRelation(r) /\ IsNamed(r)
    /\ Includes(ResolvedNames(r.sources), e.source)
    /\ IF e.hasMarker
       THEN isUnreifiedRelation(r) /\ Includes(ResolvedNames(r.targets), e.target)
       ELSE isRelationEntity(r) /\ e.target = r.name
    /\ e.label = ClaimedLabelWith(r, e.source, cardinalities, subsetOf)

\* Every label in the diagram is the claimed label of a relation of the document.
LabelsAreCombinedLabels(cardinalities, subsetOf) ==
    \A k \in DOMAIN Edges :
        IsLabelled(Edges[k]) =>
            \E i \in DOMAIN Stmts : ShowsRelation(Edges[k], Stmts[i], cardinalities, subsetOf)

\* Both branches compute the claimed label, for every relation and source.
BranchesAgreeWithClaim(cardinalities, subsetOf) ==
    \A i \in DOMAIN Stmts :
        IsRelation(Stmts[i]) /\ IsNamed(Stmts[i]) =>
            \A k \in DOMAIN ResolvedNames(Stmts[i].sources) :
                LET r == Stmts[i]
                    s == ResolvedNames(r.sources)[k]
                    claimed == ClaimedLabelWith(r, s, cardinalities, subsetOf)
                IN /\ RelationEntityLabel(r, s, cardinalities, subsetOf) = claimed
                   /\ UnreifiedRelationLabel(r, s, cardinalities, subsetOf) = claimed

\* No label has an empty line, and a reverse name is always the first line.
NoEmptyLineReverseFirst(cardinalities, subsetOf) ==
    \A k \in DOMAIN Edges :
        IsLabelled(Edges[k]) =>
            LET ls == Lines(Edges[k].label) IN
            /\ \A n \in DOMAIN ls : ls[n] # ""
            /\ \A i \in DOMAIN Stmts :
                  (HasReverse(Stmts[i])
                   /\ ShowsRelation(Edges[k], Stmts[i], cardinalities, subsetOf)) =>
                      /\ ls[1] = Stmts[i].reverseRelation
                      /\ StartsWith(ls[2], ClaimedForwardName(Stmts[i]))

\* C8: a relation label is the reverse name line (if any), then the forward
\* line with its cardinality, then one subset line per specialized relation.
C8_CombinedLabel ==
    Computed =>
        LET cardinalities == computeCardinalityMap(root)
            subsetOf == computeRelationSubsets(root)
        IN /\ LabelsAreCombinedLabels(cardinalities, subsetOf)
           /\ BranchesAgreeWithClaim(cardinalities, subsetOf)
           /\ NoEmptyLineReverseFirst(cardinalities, subsetOf)

C8_Witness ==
    /\ Computed
    /\ \E k \in DOMAIN Edges :
          /\ IsLabelled(Edges[k])
          /\ Edges[k].label = "r\nf [0..1]\n{subsets Q}"
    /\ \E k \in DOMAIN Edges :
          /\ IsLabelled(Edges[k])
          /\ Edges[k].hasMarker
          /\ Edges[k].label = "Q"

(***************************************************************************)
(* C6: for every named RelationEntity R and every pair (s, t) of its       *)
(* resolved sources and targets the diagram has exactly the two edges      *)
(* s->R (relation, no marker, combined label) and then R->t (relation,     *)
(* marker, no label).                                                      *)
(***************************************************************************)
ClaimedSourceLeg(r, s) ==
    [id |-> s \o "->" \o r.name, source |-> s, target |-> r.name,
     kind |-> "relation", hasMarker |-> FALSE, label |-> ClaimedCombinedLabel(r, s)]

ClaimedTargetLeg(r, tg) ==
    [id |-> r.name \o "->" \o tg, source |-> r.name, target |-> tg,
     kind |-> "relation", hasMarker |-> TRUE]

\* The two legs of every (source, target) pair, sources outermost.
RECURSIVE ClaimedLegsFrom(_, _, _, _, _)
ClaimedLegsFrom(r, srcs, tgts, i, j) ==
    IF i > Len(srcs) THEN <<>>
    ELSE IF j > Len(tgts) THEN ClaimedLegsFrom(r, srcs, tgts, i + 1, 1)
    ELSE <<ClaimedSourceLeg(r, srcs[i]), ClaimedTargetLeg(r, tgts[j])>>
         \o ClaimedLegsFrom(r, srcs, tgts, i, j + 1)

ClaimedLegs(r) ==
    ClaimedLegsFrom(r, ResolvedNames(r.sources), ResolvedNames(r.targets), 1, 1)

\* The edges of the diagram that are legs of a relation entity named n.
LegsOf(n) ==
    LET IsLeg(e) == /\ e.kind = "relation"
                    /\ \/ e.target = n /\ ~e.hasMarker
                       \/ e.source = n /\ e.hasMarker /\ "label" \notin DOMAIN e
    IN SelectFrom(Edges, IsLeg, 1)

\* The legs the named relation entities called n claim, in statement order.
RECURSIVE ClaimedLegsOfName(_, _)
ClaimedLegsOfName(n, i) ==
    IF i > Len(Stmts) THEN <<>>
    ELSE (IF isRelationEntity(Stmts[i]) /\ Stmts[i].name = n
          THEN ClaimedLegs(Stmts[i])
          ELSE <<>>)
         \o ClaimedLegsOfName(n, i + 1)

TwoLegsPerPair ==
    \A i \in DOMAIN Stmts :
        (isRelationEntity(Stmts[i]) /\ IsNamed(Stmts[i])) =>
            LegsOf(Stmts[i].name) = ClaimedLegsOfName(Stmts[i].name, 1)

\* C6: each resolved (source, target) pair of a named relation entity adds
\* the two legs source->R (no marker) and R->target (marker), in order.
C6_RelationEntityEdges == Computed => TwoLegsPerPair

C6_HoldsIfNamesAreUnique == (Computed /\ UniqueNames) => TwoLegsPerPair

\* The scenario of the claim, and a relation entity with two targets.
C6_Witness ==
    \/ /\ Computed
       /\ Edges = << [id |-> "A->R", source |-> "A", target |-> "R", kind |-> "relation",
                      hasMarker |-> FALSE, label |-> "r\nf [0..1]"],
                     [id |-> "R->B", source |-> "R", target |-> "B", kind |-> "relation",
                      hasMarker |-> TRUE] >>
    \/ /\ Computed
       /\ Len(LegsOf("R")) = 4

(***************************************************************************)
(* C7: for every named UnreifiedRelation r and every pair (s, t) of its    *)
(* resolved sources and targets the diagram has exactly one edge s->t      *)
(* (relation, marker, combined label), and no node for r.                  *)
(***************************************************************************)
ClaimedDirectEdge(r, s, tg) ==
    [id |-> s \o "->" \o tg, source |-> s, target |-> tg,
     kind |-> "relation", hasMarker |-> TRUE, label |-> ClaimedCombinedLabel(r, s)]

\* The (statement, source, target) triples of the named unreified relations.
UnreifiedPairs ==
    UNION {{<<i, j, k>> : j \in DOMAIN ResolvedNames(Stmts[i].sources),
                          k \in DOMAIN ResolvedNames(Stmts[i].targets)} :
           i \in {i \in DOMAIN Stmts : isUnreifiedRelation(Stmts[i]) /\ IsNamed(Stmts[i])}}

DirectEdgeOf(p) ==
    ClaimedDirectEdge(Stmts[p[1]], ResolvedNames(Stmts[p[1]].sources)[p[2]],
                      ResolvedNames(Stmts[p[1]].targets)[p[3]])

\* Each pair has its edge as often as pairs claim that edge, and every direct
\* edge of the diagram is the edge of a pair.
OneDirectEdgePerPair ==
    /\ \A p \in UnreifiedPairs :
          LET IsIt(e) == e = DirectEdgeOf(p)
          IN Count(Edges, IsIt) = Cardinality({q \in UnreifiedPairs : DirectEdgeOf(q) = DirectEdgeOf(p)})
    /\ \A k \in DOMAIN Edges :
          (IsLabelled(Edges[k]) /\ Edges[k].hasMarker) =>
              \E p \in UnreifiedPairs : Edges[k] = DirectEdgeOf(p)

\* Unreified relations add no node: the nodes are those of the entities.
NoNodeForUnreified == Len(Nodes) = Len(SelectFrom(Stmts, HasNode, 1))

\* C7: each resolved (source, target) pair of a named unreified relation adds
\* one direct marked edge source->target, and the relation adds no node.
C7_UnreifiedRelationEdges == Computed => (OneDirectEdgePerPair /\ NoNodeForUnreified)

C7_HoldsIfNamesAreUnique ==
    (Computed /\ UniqueNames) => (OneDirectEdgePerPair /\ NoNodeForUnreified)

\* The scenario of the claim: relation R [from A to A forward f].
C7_Witness ==
    /\ Computed
    /\ Nodes = <<>>
    /\ Edges = << [id |-> "A->A", source |-> "A", target |-> "A", kind |-> "relation",
                   hasMarker |-> TRUE, label |-> "f"] >>

(***************************************************************************)
(* C9: a functional relation R with resolved source A on which no entity   *)
(* named A owns an explicit restriction shows "[0..1]" in the forward      *)
(* label of its A-anchored edges; a relation that is not functional and    *)
(* has no explicit restriction shows no cardinality.                       *)
(***************************************************************************)
\* Any statement at all owns an explicit restriction on relName.
IsRestricted(relName) ==
    \E i \in DOMAIN Stmts : \E k \in DOMAIN Stmts[i].ownedPropertyRestrictions :
        IsNamed(Stmts[i]) /\ RestrictsRelation(Stmts[i].ownedPropertyRestrictions[k], relName)

FunctionalDefaultShown ==
    \A i \in DOMAIN Stmts : \A k \in DOMAIN Edges :
        LET r == Stmts[i]
            e == Edges[k]
        IN (/\ IsRelation(r) /\ Drawn(i) /\ r.functional
            /\ IsAnchoredEdge(e, e.source, r)
            /\ Includes(ResolvedNames(r.sources), e.source)
            /\ ExplicitTexts(e.source, r.name) = {})
           => ForwardLineOf(e.label, r) = ClaimedForwardName(r) \o " [0..1]"

NoCardinalityOtherwise ==
    \A i \in DOMAIN Stmts : \A k \in DOMAIN Edges :
        LET r == Stmts[i]
            e == Edges[k]
        IN (/\ IsRelation(r) /\ Drawn(i) /\ ~r.functional
            /\ IsAnchoredEdge(e, e.source, r)
            /\ Includes(ResolvedNames(r.sources), e.source)
            /\ ~IsRestricted(r.name))
           => ForwardLineOf(e.label, r) = ClaimedForwardName(r)

\* C9: an unrestricted relation shows "[0..1]" on its forward line exactly
\* when it is declared functional, and no cardinality otherwise.
C9_CardinalityDefault == Computed => (FunctionalDefaultShown /\ NoCardinalityOtherwise)

C9_HoldsIfNamesAreUnique ==
    (Computed /\ UniqueNames) => (FunctionalDefaultShown /\ NoCardinalityOtherwise)

(***************************************************************************)
(* C10: if a named relation owns a specialization axiom whose super-term   *)
(* resolves to P, every edge that shows the relation has a label with the  *)
(* line "{subsets P}".                                                     *)
(***************************************************************************)
HasSubsetLine(e, p) ==
    "label" \in DOMAIN e /\ Includes(Lines(e.label), "{subsets " \o p \o "}")

\* The edges of the claim: both legs of a relation entity, the direct edge
\* of an unreified relation.
RepresentsRelation(e, r) ==
    \/ IsAnchoredEdge(e, e.source, r) /\ Includes(ResolvedNames(r.sources), e.source)
    \/ /\ isRelationEntity(r)
       /\ e.kind = "relation" /\ e.source = r.name /\ e.hasMarker
       /\ "label" \notin DOMAIN e

\* C10, every edge: every edge that represents a relation, the target leg of
\* a relation entity included, carries a subset line for every relation it
\* specializes.
C10_SubsetLineOnEveryEdge ==
    Computed =>
        \A i \in DOMAIN Stmts : \A n \in DOMAIN Stmts[i].ownedSpecializations :
            \A k \in DOMAIN Edges :
                LET r == Stmts[i]
                    p == RefName(r.ownedSpecializations[n])
                IN (IsRelation(r) /\ IsNamed(r) /\ Truthy(p) /\ RepresentsRelation(Edges[k], r))
                   => HasSubsetLine(Edges[k], p)

\* C10, labelled edges: every labelled edge that shows a relation (the source
\* leg of a relation entity, the direct edge of an unreified relation) carries
\* a subset line for every relation it specializes.
C10_SubsetLineOnLabelledEdges ==
    Computed =>
        \A i \in DOMAIN Stmts : \A n \in DOMAIN Stmts[i].ownedSpecializations :
            \A k \in DOMAIN Edges :
                LET r == Stmts[i]
                    p == RefName(r.ownedSpecializations[n])
                IN (/\ IsRelation(r) /\ IsNamed(r) /\ Truthy(p)
                    /\ IsAnchoredEdge(Edges[k], Edges[k].source, r)
                    /\ Includes(ResolvedNames(r.sources), Edges[k].source))
                   => HasSubsetLine(Edges[k], p)

\* A relation entity that specializes two relations: its source leg has both
\* subset lines, its target leg has no label.
C10_Witness ==
    /\ Computed
    /\ \E k \in DOMAIN Edges :
          /\ Edges[k].kind = "relation" /\ ~Edges[k].hasMarker
          /\ HasSubsetLine(Edges[k], "Q") /\ HasSubsetLine(Edges[k], "A")
    /\ \E k \in DOMAIN Edges :
          /\ Edges[k].kind = "relation" /\ Edges[k].hasMarker
          /\ "label" \notin DOMAIN Edges[k]

(***************************************************************************)
(* The resolver maps of the current document.                              *)
(***************************************************************************)
Cardinalities == computeCardinalityMap(root)
SubsetOf == computeRelationSubsets(root)

\* x is a cardinality axiom of one of the three kinds on a named relation.
RestrictsNamedRelation(x) ==
    /\ isPropertyCardinalityRestrictionAxiom(x)
    /\ x.kind \in RestrictionKinds
    /\ x.property.target # <<>>
    /\ x.property.target[1].keys # {}
    /\ Truthy(x.property.target[1].name)

\* The axiom at position a of statement i, and the key the claims give it.
AxiomAt(i, a) == Stmts[i].ownedPropertyRestrictions[a]
ClaimedKey(i, a) == Stmts[i].name \o "::" \o AxiomAt(i, a).property.target[1].name

\* The positions (statement, axiom) of the explicit restrictions that named
\* statements own on named relations.
ExplicitPositions ==
    UNION {{<<i, a>> : a \in {a \in DOMAIN Stmts[i].ownedPropertyRestrictions :
                                RestrictsNamedRelation(AxiomAt(i, a))}} :
           i \in {i \in DOMAIN Stmts : IsNamed(Stmts[i])}}

\* Declaration order of positions.
Before(p, q) == p[1] < q[1] \/ (p[1] = q[1] /\ p[2] < q[2])

\* p is the first explicit restriction, in declaration order, for its key.
IsFirstForKey(p) ==
    \A q \in ExplicitPositions :
        Before(q, p) => ClaimedKey(q[1], q[2]) # ClaimedKey(p[1], p[2])

\* The display text the claims give kind k and value n.
ClaimedCardinalityText(k, n) ==
    CASE k = "exactly" -> "[" \o ToString(n) \o "]"
      [] k = "min" -> "[" \o ToString(n) \o "..*]"
      [] k = "max" -> "[0.." \o ToString(n) \o "]"

ClaimedTextAt(p) ==
    ClaimedCardinalityText(AxiomAt(p[1], p[2]).kind, AxiomAt(p[1], p[2]).cardinality)

\* A functional relation named in key k with a resolved source named in k.
IsFunctionalDefaultKey(k) ==
    \E j \in DOMAIN Stmts :
        /\ IsRelation(Stmts[j]) /\ IsNamed(Stmts[j]) /\ Stmts[j].functional
        /\ \E s \in DOMAIN Stmts[j].sources :
              /\ Truthy(RefName(Stmts[j].sources[s]))
              /\ k = RefName(Stmts[j].sources[s]) \o "::" \o Stmts[j].name

\* Every entry of the map is an explicit restriction of one of the three
\* kinds under its key, or the functional default.
OnlyTheThreeKindsRecord(map) ==
    \A k \in DOMAIN map :
        \/ \E p \in ExplicitPositions : ClaimedKey(p[1], p[2]) = k /\ map[k] = ClaimedTextAt(p)
        \/ IsFunctionalDefaultKey(k) /\ map[k] = "[0..1]"

\* No functional relation named in the key of p is declared before p's owner.
NoDefaultBefore(p) ==
    \A j \in DOMAIN Stmts :
        (/\ j < p[1]
         /\ IsRelation(Stmts[j]) /\ IsNamed(Stmts[j]) /\ Stmts[j].functional
         /\ Includes(ResolvedNames(Stmts[j].sources), Stmts[p[1]].name))
            => Stmts[j].name # AxiomAt(p[1], p[2]).property.target[1].name

\* C11: for every named entity-like statement E and cardinality axiom on a
\* relation R of kind k and value n (the first for its key), the entry under
\* "<E.name>::<R.name>" is "[n]", "[n..*]" or "[0..n]"; other kinds record nothing.
C11_CardinalityFormatting ==
    Computed =>
        LET map == Cardinalities IN
        /\ \A p \in ExplicitPositions :
              (IsEntityLike(Stmts[p[1]]) /\ IsFirstForKey(p))
                  => MapGet(map, ClaimedKey(p[1], p[2])) = ClaimedTextAt(p)
        /\ OnlyTheThreeKindsRecord(map)

\* The same, for restrictions no functional default was recorded before.
C11_HoldsIfEntityComesFirst ==
    Computed =>
        LET map == Cardinalities IN
        /\ \A p \in ExplicitPositions :
              (IsEntityLike(Stmts[p[1]]) /\ IsFirstForKey(p) /\ NoDefaultBefore(p))
                  => MapGet(map, ClaimedKey(p[1], p[2])) = ClaimedTextAt(p)
        /\ OnlyTheThreeKindsRecord(map)

\* The map after the scan of the first n statements only.
CardinalitiesAfter(n) == CardinalityLoop(EmptyMap, SubSeq(Stmts, 1, n), 1)

\* Several explicit restrictions share the key of p.
IsContested(p) ==
    \E q \in ExplicitPositions : q # p /\ ClaimedKey(q[1], q[2]) = ClaimedKey(p[1], p[2])

\* The first of several restrictions for one key decides the entry.
FirstAxiomStands(map) ==
    \A p \in ExplicitPositions :
        (IsContested(p) /\ IsFirstForKey(p))
            => MapGet(map, ClaimedKey(p[1], p[2])) = ClaimedTextAt(p)

\* A key written during the scan keeps its value to the end of the scan.
WrittenKeysKeepTheirValue(map) ==
    \A n \in 0..Len(Stmts) :
        \A k \in DOMAIN CardinalitiesAfter(n) :
            MapGet(map, k) = CardinalitiesAfter(n)[k]

\* C12: when several explicit restrictions map to one key, the entry after
\* computeCardinalityMap is the text of the first of them in declaration
\* order, and a key once written keeps its value for the rest of the scan.
C12_FirstWriteWins ==
    Computed =>
        LET map == Cardinalities IN
        FirstAxiomStands(map) /\ WrittenKeysKeepTheirValue(map)

\* The same, for restrictions no functional default was recorded before.
C12_HoldsIfEntityComesFirst ==
    Computed =>
        LET map == Cardinalities IN
        /\ \A p \in ExplicitPositions :
              (IsContested(p) /\ IsFirstForKey(p) /\ NoDefaultBefore(p))
                  => MapGet(map, ClaimedKey(p[1], p[2])) = ClaimedTextAt(p)
        /\ WrittenKeysKeepTheirValue(map)

\* The names of the named relation statements.
RelationNames == {Stmts[i].name : i \in {i \in DOMAIN Stmts : IsRelation(Stmts[i]) /\ IsNamed(Stmts[i])}}

\* The resolved super-term names of the relation statements named n, in
\* declaration order, statements from index i on.
RECURSIVE AllSupers(_, _)
AllSupers(n, i) ==
    IF i > Len(Stmts) THEN <<>>
    ELSE (IF IsRelation(Stmts[i]) /\ Stmts[i].name = n
          THEN ResolvedNames(Stmts[i].ownedSpecializations)
          ELSE <<>>)
         \o AllSupers(n, i + 1)

\* The first occurrences of the elements of seq, in order, from index k on.
RECURSIVE FirstSeenFrom(_, _)
FirstSeenFrom(seq, k) ==
    IF k > Len(seq) THEN <<>>
    ELSE (IF \A j \in 1..(k - 1) : seq[j] # seq[k] THEN <<seq[k]>> ELSE <<>>)
         \o FirstSeenFrom(seq, k + 1)

\* C13: computeRelationSubsets has a key exactly for the names of relation
\* entities and unreified relations with a resolvable specialization axiom,
\* and maps it to the super names in first-seen order without duplicates.
C13_SubsumptionResolver ==
    Computed =>
        LET map == SubsetOf IN
        /\ DOMAIN map = {n \in RelationNames : AllSupers(n, 1) # <<>>}
        /\ \A n \in DOMAIN map : map[n] = FirstSeenFrom(AllSupers(n, 1), 1)

\* A relation that names Q twice and A once, next to a concept that
\* specializes B and gets no key.
C13_Witness ==
    /\ Computed
    /\ DOMAIN SubsetOf = {"R"}
    /\ SubsetOf["R"] = <<"Q", "A">>
    /\ \E i \in DOMAIN Stmts :
          /\ IsRelation(Stmts[i])
          /\ ResolvedNames(Stmts[i].ownedSpecializations) = <<"Q", "A", "Q">>
    /\ \E i \in DOMAIN Stmts :
          isConcept(Stmts[i]) /\ IsNamed(Stmts[i]) /\ Stmts[i].ownedSpecializations # <<>>

(***************************************************************************)
(* C14: unnamed statements and unresolved references.                      *)
(***************************************************************************)
\* The references of a list that resolve to a named term.
IsResolved(r) == Truthy(RefName(r))
ResolvedOnly(refs) == SelectFrom(refs, IsResolved, 1)

\* A statement without its unresolved source, target and super-term references.
WithoutUnresolved(s) ==
    [s EXCEPT !.sources = ResolvedOnly(@),
              !.targets = ResolvedOnly(@),
              !.ownedSpecializations = ResolvedOnly(@)]

\* The document without its unnamed statements and unresolved references.
NamedOnly(r) ==
    LET named == SelectFrom(r.ownedStatements, IsNamed, 1)
    IN [r EXCEPT !.ownedStatements = [i \in DOMAIN named |-> WithoutUnresolved(named[i])]]

HasUnnamedStatement == \E i \in DOMAIN Stmts : ~IsNamed(Stmts[i])
HasUnresolvedReference ==
    \E i \in DOMAIN Stmts :
        \/ ResolvedOnly(Stmts[i].sources) # Stmts[i].sources
        \/ ResolvedOnly(Stmts[i].targets) # Stmts[i].targets
        \/ ResolvedOnly(Stmts[i].ownedSpecializations) # Stmts[i].ownedSpecializations

\* The names that named statements and resolved references give.
KnownNames ==
    {Stmts[i].name : i \in {i \in DOMAIN Stmts : IsNamed(Stmts[i])}}
    \cup UNION {{RefName(refs[k]) : k \in {k \in DOMAIN refs : IsResolved(refs[k])}} :
                refs \in UNION {{Stmts[i].sources, Stmts[i].targets,
                                 Stmts[i].ownedSpecializations} : i \in DOMAIN Stmts}}
    \cup UNION {{AxiomAt(p[1], p[2]).property.target[1].name} : p \in ExplicitPositions}

\* Nothing in the results is made from a missing name.
NothingFromMissingNames ==
    /\ \A k \in DOMAIN Nodes : Nodes[k].id \in KnownNames /\ Nodes[k].label \in KnownNames
    /\ \A k \in DOMAIN Edges : Edges[k].source \in KnownNames /\ Edges[k].target \in KnownNames
    /\ DOMAIN Cardinalities \subseteq {a \o "::" \o b : a \in KnownNames, b \in KnownNames}
    /\ DOMAIN SubsetOf \subseteq KnownNames
    /\ \A n \in DOMAIN SubsetOf : \A k \in DOMAIN SubsetOf[n] : SubsetOf[n][k] \in KnownNames

\* The results are those of the document without the unnamed statements and
\* the unresolved references.
RestIsNotAltered ==
    /\ latest[1] = computeDiagramModel(NamedOnly(root))
    /\ Cardinalities = computeCardinalityMap(NamedOnly(root))
    /\ SubsetOf = computeRelationSubsets(NamedOnly(root))

\* C14: a statement without a name and a reference that does not resolve add
\* no node, no edge, no cardinality entry and no subsumption entry, and the
\* rest of the diagram is what it is without them.
C14_UnnamedTermsExcluded ==
    Computed => NothingFromMissingNames /\ RestIsNotAltered

\* An unnamed statement next to a relation with unresolved references that
\* still gets its edges.
C14_Witness ==
    /\ Computed
    /\ HasUnnamedStatement
    /\ HasUnresolvedReference
    /\ Len(Edges) > 0

(***************************************************************************)
(* Layout Adapter (diagram-layout.ts).                                     *)
(***************************************************************************)
\* A ScalarProperty statement with its domain and range references.
ScalarProperty(n, domains, ranges) ==
    [type |-> "ScalarProperty", name |-> n, ownedSpecializations |-> NoRefs,
     ownedPropertyRestrictions |-> NoRestrictions, domains |-> domains, ranges |-> ranges]

isScalarProperty(s) == s.type = "ScalarProperty"

\* A reference to a term of the given type ('Concept', 'Aspect', ...).
TypedRef(ty, n) == [target |-> <<[name |-> n, keys |-> {}, type |-> ty]>>]

\* ranges.join(' | ') from index i on.
RECURSIVE JoinRanges(_, _)
JoinRanges(ranges, i) ==
    IF i > Len(ranges) THEN ""
    ELSE ranges[i] \o (IF i < Len(ranges) THEN " | " ELSE "") \o JoinRanges(ranges, i + 1)

\* Mutant of ScalarLine: the ranges are left out of the line.
ScalarName(sp) == sp.name

\* The display line of a scalar property: `${spName}${rangeText}`.
ScalarLine(sp) ==
    LET ranges == ResolvedNames(sp.ranges)
        rangeText == IF Len(ranges) > 0 THEN ": " \o JoinRanges(ranges, 1) ELSE ""
    IN sp.name \o rangeText

\* `ent && isConcept(ent) && ent.name` for a domain reference d.
IsConceptDomain(d) ==
    d.target # <<>> /\ d.target[1].type = "Concept" /\ Truthy(d.target[1].name)

\* The loop over the domains of one scalar property, from index i on.
RECURSIVE DomainLoop(_, _, _)
DomainLoop(map, sp, i) ==
    IF i > Len(sp.domains) THEN map
    ELSE LET d == sp.domains[i] IN
         IF IsConceptDomain(d)
         THEN LET name == d.target[1].name
                  arr == IF MapHas(map, name) THEN map[name] ELSE <<>>
                  arr2 == IF Includes(arr, ScalarLine(sp)) THEN arr
                          ELSE Append(arr, ScalarLine(sp))
              IN DomainLoop(MapSet(map, name, arr2), sp, i + 1)
         ELSE DomainLoop(map, sp, i + 1)

\* The loop over the scalar properties of the vocabulary, from index i on.
RECURSIVE ScalarPropsLoop(_, _, _)
ScalarPropsLoop(map, stmts, i) ==
    IF i > Len(stmts) THEN map
    ELSE IF isScalarProperty(stmts[i]) /\ Truthy(stmts[i].name)
         THEN ScalarPropsLoop(DomainLoop(map, stmts[i], 1), stmts, i + 1)
         ELSE ScalarPropsLoop(map, stmts, i + 1)

computeConceptScalarProps(r) ==
    IF isVocabulary(r) THEN ScalarPropsLoop(EmptyMap, r.ownedStatements, 1) ELSE EmptyMap

Max(a, b) == IF a >= b THEN a ELSE b
Min(a, b) == IF a <= b THEN a ELSE b

\* lines.reduce((m, s) => Math.max(m, s.length), 0)
RECURSIVE Longest(_, _)
Longest(lines, i) ==
    IF i > Len(lines) THEN 0 ELSE Max(Len(lines[i]), Longest(lines, i + 1))

\* The graph node of one diagram node.
SprottyNode(n, conceptProps) ==
    LET nodeWidth == 120
        baseNodeHeight == 56
        lineHeight == 18
        avgCharPx == 8
        paddingX == 32
        paddingY == 16
        header == n.label
        props == IF n.kind = "concept" /\ MapHas(conceptProps, n.id)
                 THEN conceptProps[n.id] ELSE <<>>
        hasProps == Len(props) > 0
        lines == IF hasProps THEN <<header>> \o props ELSE <<header>>
        longest == Longest(lines, 1)
        computedWidth == Max(nodeWidth, Min(600, paddingX + avgCharPx * longest))
        labelBlockHeight == Max(20, Len(lines) * lineHeight)
        computedHeight == Max(baseNodeHeight, paddingY + labelBlockHeight + 8)
    IN [id |-> n.id, type |-> "node:rect",
        size |-> [width |-> computedWidth, height |-> computedHeight],
        layoutOptions |-> [portConstraints |-> "FREE"],
        children |-> <<[id |-> n.id \o "_label", type |-> "label:multiline",
                        text |-> JoinLines(lines),
                        splitIndex |-> IF hasProps THEN 1 ELSE 0,
                        layoutOptions |->
                            [labelSize |-> ToString(computedWidth - 20) \o ","
                                           \o ToString(labelBlockHeight)]]>>]

\* The graph edge of one diagram edge.
SprottyEdge(e) ==
    LET isSpec == e.kind = "specialization"
        hasMarker == IF "hasMarker" \in DOMAIN e THEN <<e.hasMarker>> ELSE <<>>
        label == IF "label" \in DOMAIN e THEN e.label ELSE Undefined
    IN [id |-> e.id, type |-> "edge", kind |-> e.kind, hasMarker |-> hasMarker,
        sourceId |-> e.source, targetId |-> e.target,
        layoutOptions |-> [edgeType |-> IF isSpec THEN "GENERALIZATION" ELSE "ASSOCIATION"],
        children |-> IF Truthy(label)
                     THEN <<[id |-> e.id \o "_label", type |-> "label", text |-> label,
                             layoutOptions |-> [labelSize |-> "60,14"]]>>
                     ELSE <<>>]

diagramToSprotty(model, conceptProps) ==
    LET IsDrawn(n) == n.kind # "relation"
        shown == SelectFrom(model.nodes, IsDrawn, 1)
    IN [id |-> "root", type |-> "graph",
        layoutOptions |-> [algorithm |-> "org.eclipse.elk.layered", direction |-> "UP"],
        children |-> [i \in DOMAIN shown |-> SprottyNode(shown[i], conceptProps)]
                     \o [i \in DOMAIN model.edges |-> SprottyEdge(model.edges[i])]]

(***************************************************************************)
(* The language server: the 'oml/diagramModel' request handler and         *)
(* computeLaidOutSModelForUri.  A request is suspended at each await       *)
(* (document retrieval and build in computeDiagramModel, again in          *)
(* computeConceptScalarProps, then the layout call); each of them may      *)
(* reject.                                                                 *)
(***************************************************************************)
MaxRequests == 2

Uris == {"X", "Y"}
RequestIds == 1..MaxRequests

\* The documents of the workspace.
VocabularyOne ==
    [type |-> "Vocabulary",
     ownedStatements |->
        <<Entity("Concept", "A", NoRefs, NoRestrictions),
          Entity("Concept", "B", NoRefs, NoRestrictions),
          Relation("RelationEntity", "R", <<Ref("A")>>, <<Ref("B")>>, "f", "r", TRUE, NoRefs),
          ScalarProperty("p", <<TypedRef("Concept", "A")>>, <<Ref("T")>>)>>]
VocabularyTwo ==
    [type |-> "Vocabulary",
     ownedStatements |->
        <<Entity("Aspect", "B", NoRefs, NoRestrictions),
          Entity("Concept", "A", <<Ref("B")>>, NoRestrictions)>>]
SampleRoots == {VocabularyOne, VocabularyTwo, EmptyRoot("Description"), EmptyRoot(Undefined)}

\* The response of the handler's catch clause.
EmptyGraph == [id |-> "root", type |-> "graph", children |-> <<>>]

\* An exception that leaves the handler.
Rejected == [thrown |-> TRUE]

\* The layout engine returns the graph it was given, with positions.
LaidOut(graph) == [graph EXCEPT !.layoutOptions = [@ EXCEPT !.direction = "UP"]] @@ [laidOut |-> TRUE]

\* A request the server has not received yet.
IdleRequest ==
    [uri |-> Undefined, pc |-> "idle", calls |-> 0, builder |-> "pending",
     failedAt |-> "", diagram |-> None, graph |-> None, response |-> None,
     overlapped |-> {}]

InitServer ==
    /\ docs \in [Uris -> SampleRoots]
    /\ inflight = [q \in RequestIds |-> IdleRequest]
    /\ root = EmptyRoot(Undefined)
    /\ previous = None
    /\ latest = None
    /\ ClientAtRest
    /\ LayoutAtRest
    /\ TouchAtRest

\* The uris of the requests that are being handled.
UrisInFlight == {inflight[q].uri : q \in {q \in RequestIds : inflight[q].pc \notin {"idle", "responded"}}}

\* connection.onRequest(DiagramModelRequest, ...): the handler is invoked and
\* suspends in computeDiagramModel at getOrCreateDocument.
Receive(q, uri) ==
    /\ inflight[q].pc = "idle"
    /\ \A p \in RequestIds : p < q => inflight[p].pc # "idle"
    /\ inflight' = [p \in RequestIds |->
                      IF p = q
                      THEN [inflight[q] EXCEPT !.uri = uri, !.pc = "getDocument",
                                               !.calls = @ + 1,
                                               !.overlapped = UrisInFlight]
                      ELSE IF inflight[p].pc \notin {"idle", "responded"}
                           THEN [inflight[p] EXCEPT !.overlapped = @ \cup {uri}]
                           ELSE inflight[p]]
    /\ UNCHANGED <<docs, diagramVars, clientVars, layoutVars, touchVars>>

\* Mutant of OnFailure: the handler lets the exception through.
OnFailureRethrow == Rejected

\* The catch clause of the handler: the response for a failed request.
OnFailure == EmptyGraph

\* An await of request q rejects at step `at`: the exception reaches the
\* handler's catch clause.
Throws(q, at) ==
    inflight' = [inflight EXCEPT ![q].pc = "responded",
                                 ![q].failedAt = at,
                                 ![q].builder = IF @ = "pending" THEN "threw" ELSE @,
                                 ![q].response = Some(OnFailure)]

\* computeDiagramModel: `await langiumDocs.getOrCreateDocument(...)`.
GetDocument(q) ==
    /\ inflight[q].pc = "getDocument"
    /\ \/ inflight' = [inflight EXCEPT ![q].pc = "build"]
       \/ Throws(q, "getDocument")
    /\ UNCHANGED <<docs, diagramVars, clientVars, layoutVars, touchVars>>

\* computeDiagramModel: `await DocumentBuilder.build(...)`, then the
\* derivation of the diagram from the parsed root, up to its return.
Build(q) ==
    /\ inflight[q].pc = "build"
    /\ \/ inflight' = [inflight EXCEPT
                          ![q].pc = "propsGetDocument",
                          ![q].builder = "returned",
                          ![q].diagram = Some(computeDiagramModel(docs[inflight[q].uri]))]
       \/ Throws(q, "build")
    /\ UNCHANGED <<docs, diagramVars, clientVars, layoutVars, touchVars>>

\* computeConceptScalarProps: `await docs.getOrCreateDocument(...)`.
PropsGetDocument(q) ==
    /\ inflight[q].pc = "propsGetDocument"
    /\ \/ inflight' = [inflight EXCEPT ![q].pc = "propsBuild"]
       \/ Throws(q, "propsGetDocument")
    /\ UNCHANGED <<docs, diagramVars, clientVars, layoutVars, touchVars>>

\* Mutant of RequestDiagram: the diagram is kept in one place for all requests.
SharedDiagram(q) ==
    inflight[CHOOSE p \in RequestIds : inflight[p].diagram # None].diagram[1]

\* `const diagram` of computeLaidOutSModelForUri, local to request q.
RequestDiagram(q) == inflight[q].diagram[1]

\* computeConceptScalarProps: `await DocumentBuilder.build(...)`, the scalar
\* property map, then diagramToSprotty, up to the layout call.
PropsBuild(q) ==
    /\ inflight[q].pc = "propsBuild"
    /\ \/ inflight' = [inflight EXCEPT
                          ![q].pc = "layout",
                          ![q].graph = Some(diagramToSprotty(
                                           RequestDiagram(q),
                                           computeConceptScalarProps(docs[inflight[q].uri])))]
       \/ Throws(q, "propsBuild")
    /\ UNCHANGED <<docs, diagramVars, clientVars, layoutVars, touchVars>>

\* `await layoutEngine.layout(root)` and the return of the handler.
Layout(q) ==
    /\ inflight[q].pc = "layout"
    /\ \/ inflight' = [inflight EXCEPT ![q].pc = "responded",
                                       ![q].response = Some(LaidOut(inflight[q].graph[1]))]
       \/ Throws(q, "layout")
    /\ UNCHANGED <<docs, diagramVars, clientVars, layoutVars, touchVars>>

NextServer ==
    \/ \E q \in RequestIds, uri \in Uris : Receive(q, uri)
    \/ \E q \in RequestIds : GetDocument(q)
    \/ \E q \in RequestIds : Build(q)
    \/ \E q \in RequestIds : PropsGetDocument(q)
    \/ \E q \in RequestIds : PropsBuild(q)
    \/ \E q \in RequestIds : Layout(q)

SpecServer == InitServer /\ [][NextServer]_vars

(***************************************************************************)
(* C15: no diagram content without a vocabulary.                           *)
(***************************************************************************)
EmptyDiagram == [nodes |-> <<>>, edges |-> <<>>]

\* computeDiagramModel returned for a root that is no vocabulary: it returned
\* the empty diagram.
EmptyForOtherRoots ==
    \A q \in RequestIds :
        (inflight[q].builder = "returned" /\ ~isVocabulary(docs[inflight[q].uri]))
            => inflight[q].diagram = Some(EmptyDiagram)

\* The document could not be retrieved or built inside computeDiagramModel.
ResolutionFailed(q) == inflight[q].failedAt \in {"getDocument", "build"}

\* C15: for a root that is undefined or no Vocabulary computeDiagramModel
\* returns {nodes: [], edges: []}, and a resolution failure is recovered
\* inside it as the empty diagram, never surfaced to its caller as an error.
C15_NoContentWithoutVocabulary ==
    /\ EmptyForOtherRoots
    /\ \A q \in RequestIds :
          ResolutionFailed(q) =>
              /\ inflight[q].builder = "returned"
              /\ inflight[q].diagram = Some(EmptyDiagram)

\* The part of C15 about roots that are undefined or no vocabulary.
C15_HoldsForParsedRoots == EmptyForOtherRoots

(***************************************************************************)
(* C16: graceful degradation of the request handler.                       *)
(***************************************************************************)
\* C16: whatever await of a request rejects, the handler responds with the
\* empty graph; no exception leaves the handler and the request is handled
\* once, without a retry.
C16_GracefulDegradation ==
    \A q \in RequestIds :
        LET r == inflight[q] IN
        /\ r.response # Some(Rejected)
        /\ r.calls <= 1
        /\ r.pc = "responded" =>
              /\ r.response # None
              /\ r.failedAt # "" => r.response = Some(EmptyGraph)
              /\ r.failedAt = "" => r.response # Some(EmptyGraph)

\* One request failed in the layout call, another at document retrieval.
C16_Witness ==
    /\ \E q \in RequestIds :
          /\ inflight[q].pc = "responded" /\ inflight[q].failedAt = "layout"
          /\ inflight[q].graph # None
          /\ inflight[q].response = Some(EmptyGraph)
    /\ \E q \in RequestIds :
          /\ inflight[q].pc = "responded" /\ inflight[q].failedAt = "getDocument"
          /\ inflight[q].response = Some(EmptyGraph)

(***************************************************************************)
(* C19: concurrent requests for different documents.                       *)
(***************************************************************************)
\* The response a request for uri produces when it is the only request.
AloneResponse(uri, failed) ==
    IF failed THEN EmptyGraph
    ELSE LaidOut(diagramToSprotty(computeDiagramModel(docs[uri]),
                                  computeConceptScalarProps(docs[uri])))

\* Request q was in flight together with a request for another document.
OverlappedAnother(q) == \E u \in inflight[q].overlapped : u # inflight[q].uri

\* C19: the response to a request that was in flight together with a request
\* for another document is the response it produces when run alone.
C19_NoInterference ==
    \A q \in RequestIds :
        (inflight[q].pc = "responded" /\ OverlappedAnother(q))
            => inflight[q].response = Some(AloneResponse(inflight[q].uri, inflight[q].failedAt # ""))

\* Two requests for documents with different diagrams were in flight together
\* and both were answered with their graph.
C19_Witness ==
    \E q, p \in RequestIds :
        /\ inflight[q].pc = "responded" /\ inflight[p].pc = "responded"
        /\ inflight[q].failedAt = "" /\ inflight[p].failedAt = ""
        /\ OverlappedAnother(q) /\ OverlappedAnother(p)
        /\ inflight[q].uri # inflight[p].uri
        /\ inflight[q].response # inflight[p].response
        /\ Len(inflight[q].response[1].children) > 2

(***************************************************************************)
(* The extension host (activate in diagramClient.ts): change events are    *)
(* debounced per document, save events recompute at once, and each         *)
(* recompute (updatePanelsForUri) requests a model for every panel of the  *)
(* document, one after the other.  The server answers the requests in any  *)
(* order; sendRequest may reject.                                          *)
(***************************************************************************)
\* The number of editor and webview events (changes, saves, model requests).
MaxEvents == 3

\* The delay of the debounce timer, in ms, and the step of the clock.
DebounceDelay == 300
TickMs == 100

\* The panels that are open, in the order they were opened.
Panel(p, uri) == [panel |-> p, uri |-> uri]
PanelLayouts ==
    {<<Panel("P1", "X"), Panel("P2", "X")>>,
     <<Panel("P1", "X"), Panel("P2", "Y")>>}
PanelNames == {"P1", "P2"}

\* What a webview shows before the first updateModel message.
NoDisplay == [req |-> 0, payload |-> None]

\* The documents the language server holds, and the graph it answers a request
\* for each of them with.
WorkspaceDocs == [u \in Uris |-> IF u = "X" THEN VocabularyOne ELSE VocabularyTwo]
LaidOutGraphs ==
    [u \in Uris |-> LaidOut(diagramToSprotty(computeDiagramModel(WorkspaceDocs[u]),
                                             computeConceptScalarProps(WorkspaceDocs[u])))]

\* How a request ends: the server answers with the laid-out graph, the server
\* fails and its handler answers for the failure, or sendRequest rejects.
Outcomes == {"graph", "failed", "rejected"}

\* The `model` of a response.
Response(uri, outcome) == IF outcome = "graph" THEN LaidOutGraphs[uri] ELSE OnFailure

\* The model the catch clause of the 'requestModel' handler posts.
OnRejection == EmptyDiagram

InitClient ==
    /\ openPanels \in PanelLayouts
    /\ disposed = {}
    /\ updateTimeouts = EmptyMap
    /\ timers = EmptyMap
    /\ timerCount = 0
    /\ changes = [d \in Uris |-> 0]
    /\ saves = [d \in Uris |-> 0]
    /\ sinceChange = [d \in Uris |-> -1]
    /\ asked = 0
    /\ recomputes = [d \in Uris |-> <<>>]
    /\ started = [d \in Uris |-> 0]
    /\ issued = [p \in PanelNames |-> 0]
    /\ requests = {}
    /\ display = [p \in PanelNames |-> NoDisplay]
    /\ lastPosted = [p \in PanelNames |-> 0]
    /\ root = EmptyRoot(Undefined)
    /\ previous = None
    /\ latest = None
    /\ ServerAtRest
    /\ LayoutAtRest
    /\ TouchAtRest

\* The events handled so far.
EventCount ==
    changes["X"] + changes["Y"] + saves["X"] + saves["Y"] + asked + Cardinality(disposed)

\* map.delete(key)
MapDelete(map, key) == [k \in DOMAIN map \ {key} |-> map[k]]

\* clearTimeout(t): the timer leaves the pending timers.
ClearTimeout(ts, t) == [k \in DOMAIN ts \ {t} |-> ts[k]]

\* The index of the first panel for uri at or after position from, 0 for none:
\* the next iteration of `for (... of openPanels)` that passes `panelUri === uri`.
NextPanelFor(uri, from) ==
    LET matches == {i \in DOMAIN openPanels : i >= from /\ openPanels[i].uri = uri}
    IN IF matches = {} THEN 0 ELSE CHOOSE i \in matches : \A j \in matches : i <= j

\* client.sendRequest('oml/diagramModel', ...) for the panel at position i:
\* the request in flight, numbered in the order of the requests of its
\* panel.  idx is the position of the loop of updatePanelsForUri that awaits
\* it, 0 for the request of the 'requestModel' handler, and served the panels
\* that loop has sent a request for.
NewRequest(i, origin, served) ==
    [panel |-> openPanels[i].panel, uri |-> openPanels[i].uri,
     no |-> issued[openPanels[i].panel] + 1, origin |-> origin,
     idx |-> IF origin = "run" THEN i ELSE 0,
     served |-> IF origin = "run" THEN served \cup {openPanels[i].panel} ELSE {}]

\* The requests in flight and the numbering once the request for the panel
\* at position i is sent; nothing is sent for i = 0.
Send(rest, i, origin, served) ==
    /\ requests' = IF i = 0 THEN rest ELSE rest \cup {NewRequest(i, origin, served)}
    /\ issued' = IF i = 0 THEN issued
                 ELSE [issued EXCEPT ![openPanels[i].panel] = @ + 1]

\* updatePanelsForUri(uri) runs up to its first await: the request for the
\* first panel that shows uri, if there is one.
StartRun(uri, cause) ==
    /\ recomputes' = [recomputes EXCEPT ![uri] = Append(@, cause)]
    /\ started' = [started EXCEPT ![uri] = @ + 1]
    /\ Send(requests, NextPanelFor(uri, 1), "run", {})

\* Time passes: the pending timers and the time since the last change grow.
Tick ==
    /\ \/ \E t \in DOMAIN timers : timers[t].age < DebounceDelay
       \/ \E d \in Uris : sinceChange[d] >= 0 /\ sinceChange[d] < DebounceDelay
    /\ timers' = [t \in DOMAIN timers |->
                    [timers[t] EXCEPT !.age = Min(@ + TickMs, DebounceDelay)]]
    /\ sinceChange' = [d \in Uris |->
                         IF sinceChange[d] < 0 THEN sinceChange[d]
                         ELSE Min(sinceChange[d] + TickMs, DebounceDelay)]
    /\ UNCHANGED <<openPanels, disposed, updateTimeouts, timerCount, changes, saves, asked, recomputes,
                   started, issued, requests, display, lastPosted, diagramVars, serverVars,
                   layoutVars, touchVars>>

\* Mutant of ClearExisting: the timer that is pending for the document is
\* left pending.
KeepExisting(d) == timers

\* onDidChangeTextDocument: `if (existing) clearTimeout(existing)`.
ClearExisting(d) ==
    IF MapHas(updateTimeouts, d) THEN ClearTimeout(timers, updateTimeouts[d]) ELSE timers

\* onDidChangeTextDocument for an 'oml' document d.
Change(d) ==
    /\ EventCount < MaxEvents
    /\ timerCount' = timerCount + 1
    /\ timers' = MapSet(ClearExisting(d), timerCount + 1, [uri |-> d, age |-> 0])
    /\ updateTimeouts' = MapSet(updateTimeouts, d, timerCount + 1)
    /\ changes' = [changes EXCEPT ![d] = @ + 1]
    /\ sinceChange' = [sinceChange EXCEPT ![d] = 0]
    /\ recomputes' = [recomputes EXCEPT ![d] = <<>>]
    /\ UNCHANGED <<openPanels, disposed, saves, asked, started, issued, requests, display, lastPosted,
                   diagramVars, serverVars,
                   layoutVars, touchVars>>

\* The callback of a debounce timer, once its delay has passed.
TimerFires(t) ==
    /\ t \in DOMAIN timers
    /\ timers[t].age >= DebounceDelay
    /\ timers' = ClearTimeout(timers, t)
    /\ updateTimeouts' = MapDelete(updateTimeouts, timers[t].uri)
    /\ StartRun(timers[t].uri, "timer")
    /\ UNCHANGED <<openPanels, disposed, timerCount, changes, saves, asked, sinceChange, display,
                   lastPosted, diagramVars, serverVars,
                   layoutVars, touchVars>>

\* Mutant of CancelPending: the pending timer of the saved document is left.
LeavePending(d) == [timers |-> timers, updateTimeouts |-> updateTimeouts]

\* onDidSaveTextDocument: `if (existing) { clearTimeout(existing);
\* updateTimeouts.delete(savedUri); }`.
CancelPending(d) ==
    IF MapHas(updateTimeouts, d)
    THEN [timers |-> ClearTimeout(timers, updateTimeouts[d]),
          updateTimeouts |-> MapDelete(updateTimeouts, d)]
    ELSE [timers |-> timers, updateTimeouts |-> updateTimeouts]

\* onDidSaveTextDocument for an 'oml' document d.
Save(d) ==
    /\ EventCount < MaxEvents
    /\ saves' = [saves EXCEPT ![d] = @ + 1]
    /\ timers' = CancelPending(d).timers
    /\ updateTimeouts' = CancelPending(d).updateTimeouts
    /\ StartRun(d, "save")
    /\ UNCHANGED <<openPanels, disposed, timerCount, changes, asked, sinceChange, display, lastPosted,
                   diagramVars, serverVars,
                   layoutVars, touchVars>>

\* The webview of the panel at position i posts 'requestModel'.
RequestModel(i) ==
    /\ i \in DOMAIN openPanels
    /\ EventCount < MaxEvents
    /\ asked' = asked + 1
    /\ Send(requests, i, "requestModel", {})
    /\ UNCHANGED <<openPanels, disposed, updateTimeouts, timers, timerCount, changes, saves, sinceChange,
                   recomputes, started, display, lastPosted, diagramVars, serverVars,
                   layoutVars, touchVars>>

\* panel.webview.postMessage({ type: 'updateModel', ... }) with the answer
\* to request q.
Post(q, payload) ==
    /\ display' = [display EXCEPT ![q.panel] = [req |-> q.no, payload |-> Some(payload)]]
    /\ lastPosted' = [lastPosted EXCEPT ![q.panel] = Max(@, q.no)]

\* The panel leaves openPanels: findIndex and splice.
Spliced(p) ==
    LET found == {i \in DOMAIN openPanels : openPanels[i].panel = p}
        idx == IF found = {} THEN 0 ELSE CHOOSE i \in found : \A j \in found : i <= j
    IN IF idx >= 1
       THEN SubSeq(openPanels, 1, idx - 1) \o SubSeq(openPanels, idx + 1, Len(openPanels))
       ELSE openPanels

\* The user closes panel p: the handler of panel.onDidDispose.
Dispose(p) ==
    /\ p \in PanelNames \ disposed
    /\ EventCount < MaxEvents
    /\ disposed' = disposed \cup {p}
    /\ openPanels' = Spliced(p)
    /\ UNCHANGED <<updateTimeouts, timers, timerCount, changes, saves, asked, sinceChange,
                   recomputes, started, issued, requests, display, lastPosted,
                   diagramVars, serverVars, layoutVars, touchVars>>

\* The answer to the request of the 'requestModel' handler arrives, or
\* sendRequest rejects: the model of the answer, or that of the catch
\* clause, is posted.
ModelArrives(q, outcome) ==
    /\ q \in requests
    /\ q.origin = "requestModel"
    /\ requests' = requests \ {q}
    /\ Post(q, IF outcome = "rejected" THEN OnRejection ELSE Response(q.uri, outcome))
    /\ UNCHANGED <<openPanels, disposed, updateTimeouts, timers, timerCount, changes, saves, asked,
                   sinceChange, recomputes, started, issued, diagramVars, serverVars,
                   layoutVars, touchVars>>

\* The answer to the request a run of updatePanelsForUri awaits arrives, or
\* sendRequest rejects: the model is posted (or the error logged), and the
\* loop goes on to the next panel of the document.
UpdateArrives(q, outcome) ==
    /\ q \in requests
    /\ q.origin = "run"
    /\ Send(requests \ {q}, NextPanelFor(q.uri, q.idx + 1), "run", q.served)
    /\ IF outcome = "rejected" THEN UNCHANGED <<display, lastPosted>>
       ELSE Post(q, Response(q.uri, outcome))
    /\ UNCHANGED <<openPanels, disposed, updateTimeouts, timers, timerCount, changes, saves, asked,
                   sinceChange, recomputes, started, diagramVars, serverVars,
                   layoutVars, touchVars>>

\* The requests that can be in flight: an event sends at most one request
\* for a panel, and the loop of a run has served the panel it awaits.
RequestSpace ==
    {q \in [panel : PanelNames, uri : Uris, no : 1..MaxEvents,
            origin : {"run", "requestModel"}, idx : 0..2, served : SUBSET PanelNames] :
        IF q.origin = "run" THEN q.idx >= 1 /\ q.panel \in q.served
        ELSE q.idx = 0 /\ q.served = {}}

\* The events of the documents and of the webviews while the panels stay
\* open; a request is answered by the server or rejected.
NextClient ==
    \/ Tick
    \/ \E d \in Uris : Change(d)
    \/ \E t \in 1..MaxEvents : TimerFires(t)
    \/ \E d \in Uris : Save(d)
    \/ \E i \in 1..2 : RequestModel(i)
    \/ \E q \in RequestSpace, outcome \in {"graph", "rejected"} : ModelArrives(q, outcome)
    \/ \E q \in RequestSpace, outcome \in {"graph", "rejected"} : UpdateArrives(q, outcome)

SpecClient == InitClient /\ [][NextClient]_vars

\* The same events, with panels that are closed and with the answers of a
\* server whose handler fails.
NextPanels ==
    \/ Tick
    \/ \E d \in Uris : Change(d)
    \/ \E t \in 1..MaxEvents : TimerFires(t)
    \/ \E d \in Uris : Save(d)
    \/ \E i \in 1..2 : RequestModel(i)
    \/ \E p \in PanelNames : Dispose(p)
    \/ \E q \in RequestSpace, outcome \in Outcomes : ModelArrives(q, outcome)
    \/ \E q \in RequestSpace, outcome \in Outcomes : UpdateArrives(q, outcome)

SpecPanels == InitClient /\ [][NextPanels]_vars

\* The same with the scheduling of the event loop: time passes, and a timer
\* whose delay has passed runs its callback.
SpecClientFair ==
    /\ SpecClient
    /\ WF_vars(Tick)
    /\ \A t \in 1..MaxEvents : WF_vars(TimerFires(t))

(***************************************************************************)
(* Vocabulary of the claims about the extension host.                      *)
(***************************************************************************)
\* The timers pending for document d.
PendingFor(d) == {t \in DOMAIN timers : timers[t].uri = d}

\* The timers and map entries of the documents other than d are the same
\* after the step.
OthersUntouched(d) ==
    /\ \A t \in DOMAIN timers :
          timers[t].uri # d => t \in DOMAIN timers' /\ timers'[t] = timers[t]
    /\ \A e \in Uris \ {d} :
          /\ MapHas(updateTimeouts', e) <=> MapHas(updateTimeouts, e)
          /\ MapHas(updateTimeouts, e) => updateTimeouts'[e] = updateTimeouts[e]

\* The step starts exactly one recompute, for document d and of this cause.
StartsOneRecompute(d, cause) ==
    /\ started' = [started EXCEPT ![d] = @ + 1]
    /\ recomputes' = [recomputes EXCEPT ![d] = Append(@, cause)]

\* A recompute started by the timer follows one started by a save, with no
\* change of the document in between.
TimerAfterSave(d) ==
    \E i, j \in DOMAIN recomputes[d] :
        i < j /\ recomputes[d][i] = "save" /\ recomputes[d][j] = "timer"

SaveStep(d) ==
    saves'[d] # saves[d] =>
        /\ ~MapHas(updateTimeouts', d)
        /\ \A t \in DOMAIN timers' : timers'[t].uri # d
        /\ OthersUntouched(d)
        /\ StartsOneRecompute(d, "save")

\* C17: when a document is saved, its pending debounce timer is cleared and
\* its entry removed, the timers of the other documents are left as they
\* were, exactly one recompute for the document starts in the same step, and
\* no recompute started by a timer follows before the next change.
C17_SaveIsImmediate ==
    /\ [](\A d \in Uris : ~TimerAfterSave(d))
    /\ [][\A d \in Uris : SaveStep(d)]_vars

\* Document X was saved while its debounce timer was pending (less than the
\* delay after its last change), and the timer of Y is still pending.
C17_Witness ==
    /\ changes["X"] >= 1
    /\ sinceChange["X"] < DebounceDelay
    /\ recomputes["X"] = <<"save">>
    /\ PendingFor("X") = {}
    /\ MapHas(updateTimeouts, "Y")
    /\ PendingFor("Y") # {}

\* At most one timer is pending per document, and updateTimeouts holds the
\* document exactly when one is, and then holds that timer.
OneTimerPerDocument ==
    \A d \in Uris :
        /\ Cardinality(PendingFor(d)) <= 1
        /\ MapHas(updateTimeouts, d) <=> PendingFor(d) # {}
        /\ MapHas(updateTimeouts, d) => updateTimeouts[d] \in PendingFor(d)

\* The recomputes the timer started for d since the last change of d.
TimerRecomputes(d) == {i \in DOMAIN recomputes[d] : recomputes[d][i] = "timer"}

\* A recompute the timer starts for d comes a whole delay after the last
\* change of d.
TimerStep(d) ==
    recomputes'[d] = Append(recomputes[d], "timer") =>
        /\ sinceChange[d] >= DebounceDelay
        /\ StartsOneRecompute(d, "timer")

ChangeStep(d) == changes'[d] # changes[d] => OthersUntouched(d)

\* The last change of d has not been followed by a recompute yet.
AwaitsRecompute(d) == changes[d] > 0 /\ recomputes[d] = <<>>

\* C18: at most one timer is pending per document and updateTimeouts holds
\* exactly the documents with a pending timer; the timer starts at most one
\* recompute per burst of changes, a whole delay after the last change; a
\* change of one document leaves the timers of the others as they were; and
\* after the last change of a document a recompute for it starts.
C18_TrailingEdgeDebounce ==
    /\ [](OneTimerPerDocument
          /\ \A d \in Uris : Cardinality(TimerRecomputes(d)) <= 1)
    /\ [][\A d \in Uris : TimerStep(d) /\ ChangeStep(d)]_vars
    /\ \A d \in Uris : AwaitsRecompute(d) ~> ~AwaitsRecompute(d)

\* X changed twice and only one recompute ever started for it, by the timer
\* after the second change, while the timer of Y is pending.
C18_Witness ==
    /\ changes["X"] >= 2
    /\ saves["X"] = 0
    /\ recomputes["X"] = <<"timer">>
    /\ started["X"] = 1
    /\ PendingFor("Y") # {}

\* The requests of panel p that are in flight; its latest request is the one
\* numbered issued[p].
InFlightFor(p) == {q \in requests : q.panel = p}

\* C20: the response to an earlier request never replaces, in a panel, the
\* response to a later request; once every request of the panel has
\* completed the panel shows the response to the latest one.
C20_LastRequestWins ==
    \A p \in PanelNames :
        /\ display[p].req >= lastPosted[p]
        /\ (InFlightFor(p) = {} /\ lastPosted[p] = issued[p])
              => display[p].req = issued[p]

\* What the code does guarantee: a response to a request later than every
\* one answered so far for the panel is what the panel shows next.
C20_LaterResponseIsDisplayed ==
    [][\A p \in PanelNames :
          lastPosted'[p] > lastPosted[p] => display'[p].req = lastPosted'[p]]_vars

(***************************************************************************)
(* The layout adapter on its own: a document is parsed statement by        *)
(* statement, then computeLaidOutSModelForUri derives its diagram and its  *)
(* scalar property lines and hands both to diagramToSprotty.               *)
(***************************************************************************)
\* The statements declared on top of a vocabulary.
MaxDecls == 3

\* The scalar properties of the concept of TallVocabulary.
MaxProps == 32

\* `Math.min(600, ...)`: the widest a node gets.
MaxNodeWidth == 600

LongName == "AVeryLongConceptNameThatDoesNotFitIntoTheWidestNodeTheLayoutAdapterDraws"

\* The statements of the documents handed to the layout adapter.
LayoutStatements ==
    {Entity("Concept", "A", NoRefs, NoRestrictions),
     Entity("Concept", "A", <<Ref("B")>>, <<CardinalityAxiom(Ref("q"), "exactly", 1)>>),
     Entity("Concept", "TwentyCharactersLong", NoRefs, NoRestrictions),
     Entity("Concept", LongName, NoRefs, NoRestrictions),
     Entity("Concept", "A_label", NoRefs, NoRestrictions),
     Entity("Aspect", "B", NoRefs, NoRestrictions),
     Relation("RelationEntity", "R", <<Ref("A")>>, <<Ref("B")>>, "f", "r", TRUE, NoRefs),
     Relation("UnreifiedRelation", "R", <<Ref("A")>>, <<Ref("B")>>,
              Undefined, Undefined, FALSE, NoRefs),
     Relation("UnreifiedRelation", "Q", <<Ref("B")>>, <<Ref("A")>>,
              "forward", Undefined, TRUE, <<Ref("R")>>),
     ScalarProperty("p", <<TypedRef("Concept", "A")>>, <<Ref("T")>>),
     ScalarProperty("q", <<TypedRef("Concept", "A"), TypedRef("Aspect", "B"),
                           TypedRef("Concept", "A"), TypedRef("RelationEntity", "R")>>,
                    <<Ref("T"), Unresolved, Ref("U")>>),
     ScalarProperty("q", <<Unresolved, TypedRef("Concept", "A")>>, NoRefs),
     ScalarProperty(Undefined, <<TypedRef("Concept", "A")>>, <<Ref("T")>>)}

\* A vocabulary whose concept A is in the domain of MaxProps scalar properties.
TallVocabulary ==
    [type |-> "Vocabulary",
     ownedStatements |->
        <<Entity("Concept", "A", NoRefs, NoRestrictions)>>
        \o [i \in 1..MaxProps |->
              ScalarProperty("p" \o ToString(i), <<TypedRef("Concept", "A")>>, NoRefs)]]

\* The documents before any further statement is declared.
LayoutRoots == {EmptyRoot(ty) : ty \in RootTypes}

\* The locals of computeLaidOutSModelForUri before it has run.
NotComputed == [diagram |-> None, conceptProps |-> None, root |-> None]

\* The locals of computeLaidOutSModelForUri for TallVocabulary when it
\* reaches the call of diagramToSprotty.
TallComputed ==
    [diagram |-> Some([nodes |-> <<DiagramNode("A", "concept")>>, edges |-> <<>>]),
     conceptProps |-> Some([n \in {"A"} |-> [i \in 1..MaxProps |-> "p" \o ToString(i)]]),
     root |-> None]

InitLayout ==
    /\ \/ document \in LayoutRoots /\ sprotty = NotComputed
       \/ document = TallVocabulary /\ sprotty = TallComputed
    /\ root = EmptyRoot(Undefined)
    /\ previous = None
    /\ latest = None
    /\ ServerAtRest
    /\ ClientAtRest
    /\ TouchAtRest

\* The parser appends a statement to the vocabulary, before the graph of the
\* document is requested.
Declare(s) ==
    /\ isVocabulary(document)
    /\ sprotty = NotComputed
    /\ Len(document.ownedStatements) < MaxDecls
    /\ document' = [document EXCEPT !.ownedStatements = Append(@, s)]
    /\ UNCHANGED <<sprotty, diagramVars, serverVars, clientVars, touchVars>>

\* `const diagram = await computeDiagramModel(shared, uri)`
ComputeDiagram ==
    /\ sprotty.diagram = None
    /\ sprotty' = [sprotty EXCEPT !.diagram = Some(computeDiagramModel(document))]
    /\ UNCHANGED <<document, diagramVars, serverVars, clientVars, touchVars>>

\* `const conceptProps = await computeConceptScalarProps(shared, uri)`
ComputeProps ==
    /\ sprotty.diagram # None
    /\ sprotty.conceptProps = None
    /\ sprotty' = [sprotty EXCEPT !.conceptProps = Some(computeConceptScalarProps(document))]
    /\ UNCHANGED <<document, diagramVars, serverVars, clientVars, touchVars>>

\* `const root = diagramToSprotty(diagram, conceptProps)`
ToSprotty ==
    /\ sprotty.conceptProps # None
    /\ sprotty.root = None
    /\ sprotty' = [sprotty EXCEPT
                      !.root = Some(diagramToSprotty(sprotty.diagram[1],
                                                     sprotty.conceptProps[1]))]
    /\ UNCHANGED <<document, diagramVars, serverVars, clientVars, touchVars>>

NextLayout ==
    \/ \E s \in LayoutStatements : Declare(s)
    \/ ComputeDiagram
    \/ ComputeProps
    \/ ToSprotty

SpecLayout == InitLayout /\ [][NextLayout]_vars

(***************************************************************************)
(* Vocabulary of the claims about the graph.                               *)
(***************************************************************************)
GraphComputed == sprotty.root # None
Graph == sprotty.root[1]
ConceptProps == sprotty.conceptProps[1]

\* The node and edge children of the graph, in order.
IsNodeChild(c) == c.type = "node:rect"
IsEdgeChild(c) == c.type = "edge"
NodeChildren == SelectFrom(Graph.children, IsNodeChild, 1)
EdgeChildren == SelectFrom(Graph.children, IsEdgeChild, 1)

\* The diagram the graph was made of.
Diagram == sprotty.diagram[1]

\* The lines of the i-th diagram node: its header, and for a concept the lines
\* of its scalar properties.
NodeLines(i) ==
    LET n == Diagram.nodes[i]
        props == ConceptProps
    IN <<n.label>> \o (IF n.kind = "concept" /\ MapHas(props, n.id) THEN props[n.id] ELSE <<>>)

\* The width and the height the claim gives a node with these lines.
ClaimedWidth(lines) == Max(120, Min(MaxNodeWidth, 32 + 8 * Longest(lines, 1)))
ClaimedHeight(lines) == Max(56, 16 + Max(20, Len(lines) * 18) + 8)

\* The claim's fixed maximum of the height; the code names none, the one of
\* the width is taken.
MaxNodeHeight == MaxNodeWidth

\* The node children are the diagram nodes, each with its lines as label.
NodesShowTheirLines ==
    /\ Len(NodeChildren) = Len(Diagram.nodes)
    /\ \A i \in DOMAIN NodeChildren :
          NodeChildren[i].children[1].text = JoinLines(NodeLines(i))

WidthIsClamped ==
    \A i \in DOMAIN NodeChildren :
        LET c == NodeChildren[i] IN
        /\ c.size.width = ClaimedWidth(NodeLines(i))
        /\ c.size.width >= 120
        /\ c.size.width <= MaxNodeWidth

HeightHasMinimum ==
    \A i \in DOMAIN NodeChildren :
        LET c == NodeChildren[i] IN
        /\ c.size.height = ClaimedHeight(NodeLines(i))
        /\ c.size.height >= 56

HeightHasMaximum ==
    \A i \in DOMAIN NodeChildren : NodeChildren[i].size.height <= MaxNodeHeight

\* C21: every node of the graph is max(120, min(600, 32 + 8*L)) wide for the
\* longest line L of its label, so between 120 and 600, and its height is
\* computed from the number of lines, never below 56 and never above a fixed
\* maximum.
C21_NodeSizingIsClamped ==
    GraphComputed =>
        NodesShowTheirLines /\ WidthIsClamped /\ HeightHasMinimum /\ HeightHasMaximum

\* What the code does guarantee: the width is clamped, the height has the
\* minimum only and is 16 + max(20, 18*k) + 8 above it.
C21_HoldsWithoutHeightMaximum ==
    GraphComputed => NodesShowTheirLines /\ WidthIsClamped /\ HeightHasMinimum

(***************************************************************************)
(* C22: the boxes of the edge labels.                                      *)
(***************************************************************************)
HasLabelChild(c) == c.children # <<>>
LabelledEdges == SelectFrom(EdgeChildren, HasLabelChild, 1)

\* What the claim sizes a label by: its longest line and its number of lines.
TextMeasure(text) == <<Longest(Lines(text), 1), Len(Lines(text))>>

BoxSize(c) == c.children[1].layoutOptions.labelSize

\* C22: the box of an edge label is sized from its text, so two labels whose
\* longest line or number of lines differ get boxes of different size.
C22_LabelBoxFollowsText ==
    GraphComputed =>
        \A i, j \in DOMAIN LabelledEdges :
            TextMeasure(LabelledEdges[i].children[1].text)
                # TextMeasure(LabelledEdges[j].children[1].text)
            => BoxSize(LabelledEdges[i]) # BoxSize(LabelledEdges[j])

\* What the code does: every label box is 60 by 14, whatever the text.
C22_EveryLabelBoxIsTheSame ==
    GraphComputed =>
        \A i \in DOMAIN LabelledEdges : BoxSize(LabelledEdges[i]) = "60,14"

(***************************************************************************)
(* C23: scalar properties only decorate concept nodes.                     *)
(***************************************************************************)
Declared == document.ownedStatements

\* A restriction whose property is a relation (it has a forward or a reverse).
IsOnRelation(r) ==
    /\ r.property.target # <<>>
    /\ r.property.target[1].keys \cap {"forwardRelation", "reverseRelation"} # {}

\* The statement without its restrictions on other properties.
OnRelationsOnly(s) ==
    [s EXCEPT !.ownedPropertyRestrictions = SelectFrom(@, IsOnRelation, 1)]

\* The document without its scalar properties and without the restrictions on
\* them.
WithoutScalarProperties ==
    LET IsOther(s) == ~isScalarProperty(s)
        others == SelectFrom(Declared, IsOther, 1)
    IN [document EXCEPT !.ownedStatements = [i \in DOMAIN others |-> OnRelationsOnly(others[i])]]

\* "<range1> | <range2>..." from index i on.
RECURSIVE ClaimedRanges(_, _)
ClaimedRanges(ranges, i) ==
    IF i = Len(ranges) THEN ranges[i]
    ELSE ranges[i] \o " | " \o ClaimedRanges(ranges, i + 1)

\* The display line of a scalar property: "<name>" or "<name>: <ranges>".
ClaimedLine(sp) ==
    LET ranges == ResolvedNames(sp.ranges)
    IN IF ranges = <<>> THEN sp.name ELSE sp.name \o ": " \o ClaimedRanges(ranges, 1)

\* Concept `name` is in the domain of scalar property sp.
InDomain(sp, name) ==
    \E i \in DOMAIN sp.domains :
        /\ sp.domains[i].target # <<>>
        /\ sp.domains[i].target[1].type = "Concept"
        /\ sp.domains[i].target[1].name = name

\* The lines of the named scalar properties of concept `name`, in declaration
\* order and each once.
ClaimedLinesOf(name) ==
    LET IsProp(s) == isScalarProperty(s) /\ Truthy(s.name) /\ InDomain(s, name)
        props == SelectFrom(Declared, IsProp, 1)
    IN FirstSeenFrom([i \in DOMAIN props |-> ClaimedLine(props[i])], 1)

\* Nodes, edges and cardinalities are those of the document without its scalar
\* properties.
ScalarsLeaveTheDiagramAlone ==
    /\ Diagram = computeDiagramModel(WithoutScalarProperties)
    /\ isVocabulary(document) =>
          computeCardinalityMap(document) = computeCardinalityMap(WithoutScalarProperties)

\* A concept node shows its header and then its lines; any other node shows
\* its header only.
OnlyConceptsAreDecorated ==
    /\ Len(NodeChildren) = Len(Diagram.nodes)
    /\ \A i \in DOMAIN NodeChildren :
          LET n == Diagram.nodes[i] IN
          NodeChildren[i].children[1].text
              = JoinLines(<<n.id>> \o (IF n.kind = "concept" THEN ClaimedLinesOf(n.id)
                                       ELSE <<>>))

\* C23: a scalar property makes no node, no edge and no cardinality entry,
\* also when an entity restricts its cardinality; it only adds its display
\* line, once and in declaration order, to the label of each concept node in
\* its domain, never to an aspect or relation entity node.
C23_ScalarPropertiesOnlyDecorate ==
    GraphComputed => ScalarsLeaveTheDiagramAlone /\ OnlyConceptsAreDecorated

\* Concept A shows the lines of two scalar properties, one of them with A
\* twice in its domain and with ranges, and aspect B, which is in the domain
\* of one of them, shows its header only.
C23_Witness ==
    /\ GraphComputed
    /\ \E i \in DOMAIN NodeChildren :
          /\ Diagram.nodes[i].kind = "concept"
          /\ NodeChildren[i].children[1].text = "A\nq: T | U"
    /\ \E i \in DOMAIN NodeChildren :
          /\ Diagram.nodes[i].kind = "aspect"
          /\ NodeChildren[i].children[1].text = "B"
    /\ \E i \in DOMAIN Declared :
          /\ isScalarProperty(Declared[i])
          /\ \E j \in DOMAIN Declared[i].domains :
                Declared[i].domains[j] = TypedRef("Aspect", "B")

(***************************************************************************)
(* C30: the graph mirrors the diagram.                                     *)
(***************************************************************************)
\* The graph is the root 'root' of type 'graph'; its children are the node
\* children followed by the edge children.
RootHoldsNodesThenEdges ==
    /\ Graph.id = "root"
    /\ Graph.type = "graph"
    /\ Graph.children = NodeChildren \o EdgeChildren
    /\ Len(NodeChildren) = Len(Diagram.nodes)
    /\ Len(EdgeChildren) = Len(Diagram.edges)

NodesMirrorTheDiagram ==
    \A i \in DOMAIN NodeChildren :
        LET c == NodeChildren[i] IN
        /\ c.id = Diagram.nodes[i].id
        /\ Len(c.children) = 1
        /\ c.children[1].id = c.id \o "_label"
        /\ c.children[1].text = JoinLines(NodeLines(i))

EdgesMirrorTheDiagram ==
    \A i \in DOMAIN EdgeChildren :
        LET c == EdgeChildren[i]
            e == Diagram.edges[i]
        IN /\ c.id = e.id
           /\ c.kind = e.kind
           /\ c.hasMarker = (IF "hasMarker" \in DOMAIN e THEN <<e.hasMarker>> ELSE <<>>)
           /\ c.sourceId = e.source
           /\ c.targetId = e.target
           /\ c.children # <<>> <=> ("label" \in DOMAIN e /\ e.label # Undefined /\ e.label # "")
           /\ c.children # <<>> =>
                 /\ Len(c.children) = 1
                 /\ c.children[1].id = c.id \o "_label"
                 /\ c.children[1].text = e.label
           /\ c.layoutOptions.edgeType
                 = (IF e.kind = "specialization" THEN "GENERALIZATION" ELSE "ASSOCIATION")

\* The ids of all elements of the graph: the children and their label children.
ElementIds ==
    LET labels(c) == [k \in DOMAIN c.children |-> c.children[k].id]
        RECURSIVE From(_)
        From(i) == IF i > Len(Graph.children) THEN <<>>
                   ELSE <<Graph.children[i].id>> \o labels(Graph.children[i]) \o From(i + 1)
    IN From(1)

IdsArePairwiseDistinct ==
    \A i, j \in DOMAIN ElementIds : i # j => ElementIds[i] # ElementIds[j]

\* C30: the graph is the root 'root' of type 'graph' with one 'node:rect'
\* child per diagram node (same id, one label child with the header and
\* property lines) followed by one 'edge' child per diagram edge (same id,
\* kind, hasMarker, source and target; a label child exactly for a non-empty
\* label; GENERALIZATION for specialization edges, ASSOCIATION for relation
\* edges), and all element ids are pairwise distinct.
C30_GraphMirrorsDiagram ==
    GraphComputed =>
        /\ RootHoldsNodesThenEdges
        /\ NodesMirrorTheDiagram
        /\ EdgesMirrorTheDiagram
        /\ IdsArePairwiseDistinct

\* What the code does guarantee: everything but the distinct ids.
C30_HoldsButForDistinctIds ==
    GraphComputed =>
        RootHoldsNodesThenEdges /\ NodesMirrorTheDiagram /\ EdgesMirrorTheDiagram

(***************************************************************************)
(* C24, C25: the ends and the ids of the edges of a diagram.               *)
(***************************************************************************)
NodeIds == {Nodes[i].id : i \in DOMAIN Nodes}

\* C24: every edge of the diagram starts and ends at a node of the diagram.
C24_NoDanglingEdges ==
    Computed =>
        \A i \in DOMAIN Edges : Edges[i].source \in NodeIds /\ Edges[i].target \in NodeIds

\* C25: no two edges of the diagram share an id.
C25_EdgeIdsUnique ==
    Computed => \A i, j \in DOMAIN Edges : i # j => Edges[i].id # Edges[j].id

(***************************************************************************)
(* The touch gestures of the webview (diagramClient.ts, enablePanZoom).    *)
(* Positions are taken along one axis; the other one is handled by the     *)
(* same code.  `touches` is e.touches, the fingers on the screen; the      *)
(* touchstart listener is on the diagram root, the touchmove and touchend  *)
(* listeners are on the window.  The pan offset a pinch computes depends   *)
(* on the floating-point scale and is any offset of the range.             *)
(***************************************************************************)
MaxTouches == 3
MaxPos == 2
MaxPan == 2

Positions == 0..MaxPos
PanRange == (0 - MaxPan)..MaxPan

InitTouch ==
    /\ TouchAtRest
    /\ root = EmptyRoot(Undefined) /\ previous = None /\ latest = None
    /\ ServerAtRest /\ ClientAtRest /\ LayoutAtRest

\* e.touches after the finger at index i has left.
WithoutTouch(ts, i) == SubSeq(ts, 1, i - 1) \o SubSeq(ts, i + 1, Len(ts))

\* A finger goes down at x, on the diagram (onRoot) or beside it: onTouchStart.
TouchStart(x, onRoot) ==
    /\ Len(touches) < MaxTouches
    /\ touches' = Append(touches, x)
    /\ IF onRoot /\ Len(touches') = 1
       THEN /\ isPanning' = TRUE
            /\ startX' = touches'[1] - panX
            /\ UNCHANGED pinchActive
       ELSE IF onRoot /\ Len(touches') = 2
       THEN /\ pinchActive' = TRUE
            /\ isPanning' = FALSE
            /\ UNCHANGED startX
       ELSE UNCHANGED <<isPanning, pinchActive, startX>>
    /\ pinchEnded' = FALSE
    /\ UNCHANGED <<panX, diagramVars, serverVars, clientVars, layoutVars>>

\* The finger at index i moves to x: onTouchMove.
TouchMove(i, x) ==
    /\ i \in DOMAIN touches
    /\ x # touches[i]
    /\ touches' = [touches EXCEPT ![i] = x]
    /\ IF pinchActive /\ Len(touches') = 2
       THEN panX' \in PanRange
       ELSE IF isPanning /\ Len(touches') = 1
       THEN /\ panX' = touches'[1] - startX
            /\ panX' \in PanRange
       ELSE UNCHANGED panX
    /\ UNCHANGED <<isPanning, pinchActive, startX, pinchEnded,
                   diagramVars, serverVars, clientVars, layoutVars>>

\* The finger at index i is lifted: onTouchEnd.
TouchEnd(i) ==
    /\ i \in DOMAIN touches
    /\ touches' = WithoutTouch(touches, i)
    /\ IF Len(touches') = 0
       THEN /\ isPanning' = FALSE
            /\ pinchActive' = FALSE
            /\ UNCHANGED startX
       ELSE IF Len(touches') = 1
       THEN /\ pinchActive' = FALSE
            /\ startX' = touches'[1] - panX
            /\ UNCHANGED isPanning
       ELSE UNCHANGED <<isPanning, pinchActive, startX>>
    /\ pinchEnded' = (pinchActive /\ Len(touches') = 1)
    /\ UNCHANGED <<panX, diagramVars, serverVars, clientVars, layoutVars>>

NextTouch ==
    \/ \E x \in Positions, onRoot \in BOOLEAN : TouchStart(x, onRoot)
    \/ \E i \in 1..MaxTouches, x \in Positions : TouchMove(i, x)
    \/ \E i \in 1..MaxTouches : TouchEnd(i)

SpecTouch == InitTouch /\ [][NextTouch]_vars

(***************************************************************************)
(* C29: the touch gesture state machine.                                   *)
(***************************************************************************)
\* A pinch has ended with one finger left on the screen, and that finger moves.
OneFingerMovesAfterPinch ==
    /\ pinchEnded
    /\ Len(touches) = 1
    /\ touches' # touches
    /\ Len(touches') = 1

\* The pan offset follows the finger from where the pinch ended.
PanFollowsFinger == panX' - panX = touches'[1] - touches[1]

AllLifted == touches = <<>>

\* C29: after a pinch ends with exactly one finger still down, the one-finger
\* moves that follow move the pan offset with the finger; and when all fingers
\* are lifted neither panning nor pinching is active.
C29_TouchGestures ==
    /\ [][OneFingerMovesAfterPinch => PanFollowsFinger]_vars
    /\ [](AllLifted => ~isPanning /\ ~pinchActive)

\* What the code does guarantee: all fingers lifted ends both gestures, and a
\* pinch that ends with one finger left is no longer active.
C29_LiftingEndsGestures ==
    /\ AllLifted => ~isPanning /\ ~pinchActive
    /\ pinchEnded => ~pinchActive /\ Len(touches) = 1

\* What the code does after a pinch that left one finger: the offset stays.
C29_PanIsStuckAfterPinch ==
    [][OneFingerMovesAfterPinch => panX' = panX]_vars

(***************************************************************************)
(* C26: every open panel is refreshed.                                     *)
(***************************************************************************)
\* The panels that are open for uri after the step.
OpenFor(uri) == {openPanels'[i].panel : i \in {i \in DOMAIN openPanels' : openPanels'[i].uri = uri}}

\* The run of updatePanelsForUri that awaits q gets its answer and ends: the
\* loop finds no further panel.
RunEnds(q) ==
    /\ q \in requests
    /\ q.origin = "run"
    /\ requests' = requests \ {q}

\* C26: when a run of updatePanelsForUri(uri) ends, it has sent a request for
\* every panel that is open for uri, also when panels were disposed or
\* requests failed while it was suspended; no open panel is skipped.
C26_EveryOpenPanelRefreshed ==
    [][\A q \in requests : RunEnds(q) => OpenFor(q.uri) \subseteq q.served]_vars

\* What the code does guarantee: no panel is skipped by a run during which no
\* panel has been disposed.
C26_HoldsWhileNoPanelIsDisposed ==
    [][\A q \in requests :
          RunEnds(q) /\ disposed = {} => OpenFor(q.uri) \subseteq q.served]_vars

(***************************************************************************)
(* C27: no update after dispose.                                           *)
(***************************************************************************)
\* openPanels has one entry for each panel that is open, and no other.
OpenPanelsAreTracked ==
    /\ {openPanels[i].panel : i \in DOMAIN openPanels} = PanelNames \ disposed
    /\ Len(openPanels) = Cardinality(PanelNames \ disposed)

\* Nothing is posted to the webview of a panel that has been disposed.
NoPostToDisposed ==
    \A p \in disposed : display'[p] = display[p] /\ lastPosted'[p] = lastPosted[p]

\* C27: once a panel has been disposed no updateModel message is posted to its
\* webview, whatever requests were in flight when it was disposed; and
\* openPanels holds an entry for a panel exactly while the panel is open.
C27_NoUpdateAfterDispose ==
    /\ [][NoPostToDisposed]_vars
    /\ [](ClientAtRest \/ OpenPanelsAreTracked)

\* What the code does guarantee: the second half.
C27_OpenPanelsFollowDispose == ClientAtRest \/ OpenPanelsAreTracked

(***************************************************************************)
(* C28: the payload of the updateModel messages.                           *)
(***************************************************************************)
\* The models a webview has been sent.
Shown == {display[p].payload[1] : p \in {p \in DOMAIN display : display[p].payload # None}}

ServerGraphs == {LaidOutGraphs[u] : u \in Uris}

\* C28: the model of every updateModel message is the laid-out graph the
\* server returned or the empty graph {id: 'root', type: 'graph', children: []},
\* also when sendRequest fails for the initial requestModel.
C28_PayloadIsGraphOrEmptyGraph ==
    Shown \subseteq ServerGraphs \cup {EmptyGraph}

\* What the code does guarantee: the model is a graph of the server, the empty
\* graph of the server's handler, or the empty diagram {nodes: [], edges: []}
\* of the catch clause of the 'requestModel' handler.
C28_PayloadOrEmptyDiagram ==
    Shown \subseteq ServerGraphs \cup {EmptyGraph, EmptyDiagram}

\* What the code does guarantee: the answer to a request of a change or save
\* either posts a graph of the server or the empty graph, or posts nothing.
C28_UpdatesPostGraphsOnly ==
    [][\A q \in requests :
          q \in requests /\ q.origin = "run" /\ q \notin requests'
          => \/ display' = display
             \/ display'[q.panel].payload \in {Some(LaidOutGraphs[q.uri]), Some(EmptyGraph)}]_vars

====
